---- MODULE Spec2Model ----
(***************************************************************************)
(* Model of the validation pipeline of validate-xml:                       *)
(*   ValidationEngine::validate_files_with_progress  (src/src/validator.rs)*)
(*   ValidationEngine::validate_single_file_internal (src/src/validator.rs)*)
(*   ParsedSchemaCache::get_or_load, SchemaCache     (src/src/cache.rs)    *)
(*   SchemaLoader::load_schema                       (src/src/schema_loader.rs) *)
(*   LibXml2Wrapper parse / validate                 (src/src/libxml2.rs)  *)
(*                                                                         *)
(* One per-file task is spawned for every file.  A task acquires a         *)
(* semaphore permit, then runs the single-file pipeline under a timeout.   *)
(* Engine calls run on blocking workers: a worker call that was spawned    *)
(* keeps running after the task that awaited it was cancelled.             *)
(*                                                                         *)
(* Scope: the number of distinct schema urls stays below the capacity of   *)
(* the moka caches (no eviction), no cache TTL elapses during the run, the *)
(* blocking pool always has a free thread, and no task panics.             *)
(***************************************************************************)
EXTENDS Integers, Sequences, FiniteSets, TLC

\* ---------------------------------------------------------------- bounds
MaxFiles == 2
MaxConcurrent == 2

\* ------------------------------------------------------------ value sets
RemoteUrls == {"http://h/a.xsd"}
LocalUrls == {"b.xsd"}
Urls == RemoteUrls \cup LocalUrls

Files == 1..MaxFiles

\* result codes the engine's xmlSchemaValidateFile can return
EngineCodes == {-1, 0, 2}

\* errors a schema build (the loader closure of get_or_load) can end with
BuildErrors == {"SchemaNotFound", "SchemaParsing", "Cache", "SchemaParseFailed"}

NoOutcome == [status |-> "None", detail |-> "-", error_count |-> 0, schema_url |-> "-"]

VARIABLES
    numFiles,       \* files.len()
    maxConcurrent,  \* config.max_concurrent_validations
    failFast,       \* config.fail_fast
    pc,             \* position of each per-file task
    decl,           \* schema_ref.url extracted for the file ("-" before)
    outcome,        \* the task's FileValidationResult
    permits,        \* available semaphore permits
    completed,      \* the AtomicUsize progress counter
    inflight,       \* moka waiter map: url -> task running the init future (0 none)
    waitingOn,      \* task -> the leader whose waiter it is reading (0 none)
    result,         \* value of the waiter installed by a leader
    parsed,         \* ParsedSchemaCache: url -> compiled schema handle (0 none)
    got,            \* compiled schema handle the task received (0 none)
    mem,            \* MemoryCache: url -> bytes present
    disk,           \* DiskCache: url -> "absent" | "valid"
    disk0,          \* the disk tier as it was when the run started
    job,            \* blocking-pool call spawned by the task
    ops,            \* operations each task's pipeline has performed
    ret,            \* validate_files_with_progress: "running" | "ok"
    file_results    \* the returned Vec<FileValidationResult>

\* the cache component on its own (DiskCache, MemoryCache, SchemaCache)
VARIABLES
    now,            \* Utc::now()
    cacache,        \* cacache content store of cache_dir: key -> bytes
    metadata_file,  \* cache_dir/metadata/<key>.json: key -> file
    memory_cache,   \* MemoryCache: key -> CachedSchema
    set_pending,    \* a DiskCache::set between its data and metadata write
    ttl,            \* config.ttl_hours, in clock instants
    cache_ret,      \* the value the cache call just made returned
    history         \* per key, what the calls made so far entitle a reader to

cacheVars == <<now, cacache, metadata_file, memory_cache, set_pending, ttl, cache_ret, history>>

\* SchemaLoader::load_remote_schema over two runs that share a cache directory
VARIABLES
    run,            \* "A", then "B": the process that is running
    server,         \* the bytes the server serves for the url
    engine,         \* libxml2's verdict on the file for each schema text
    load_pc,        \* position of load_remote_schema in this run
    loaded,         \* run -> the bytes load_remote_schema returned
    downloads,      \* run -> number of download_schema calls
    run_outcome,    \* run -> the outcome of the file
    persisted       \* the disk entry run A left behind

loaderVars == <<run, server, engine, load_pc, loaded, downloads, run_outcome, persisted>>

\* AsyncHttpClient::download_schema: one fetch
VARIABLES
    retry_attempts,   \* config.retry_attempts
    current_attempt,  \* the loop variable of get_response_with_retry
    responses,        \* what make_request returned, request after request
    waits,            \* the attempt numbers wait_before_retry was called with
    http_pc,          \* "request" | "body" | "done"
    http_ret          \* what download_schema returned

httpVars == <<retry_attempts, current_attempt, responses, waits, http_pc, http_ret>>

\* FileDiscovery::discover_files: one walk
VARIABLES
    extensions,        \* self.extensions
    include_patterns,  \* self.include_patterns
    exclude_patterns,  \* self.exclude_patterns
    max_depth,         \* self.max_depth (-1 is None)
    follow_symlinks,   \* self.follow_symlinks
    frames,            \* the read_dir loops in progress, innermost last
    files,             \* the Vec the walk pushes to
    descended,         \* the directories below the root that were read
    walk_pc,           \* "start" | "walking" | "done" | "failed" (Err)
    root_kind          \* what the root path names: "dir" | "file"

discoveryVars ==
    <<extensions, include_patterns, exclude_patterns, max_depth, follow_symlinks,
      frames, files, descended, walk_pc, root_kind>>

\* SchemaExtractor::determine_source_type: one call
VARIABLES
    url,             \* the schema URI found in the XML file, as its characters
    xml_file_path,   \* the path of the XML file, as its characters
    source_type      \* the SchemaSourceType returned (NoSourceType before)

sourceVars == <<url, xml_file_path, source_type>>

\* LibXml2Wrapper::validate_file and the match on its result: one file
VARIABLES
    validate_pc,     \* "start" | "validating" | "done"
    errors,          \* the Vec the structured error callback pushes to
    result_code,     \* what xmlSchemaValidateFile returned (NoCode before)
    file_result      \* the FileValidationResult of the file

validateVars == <<validate_pc, errors, result_code, file_result>>

\* LibXml2Wrapper::new called from several threads of one process
VARIABLES
    LIBXML2_INIT,    \* the std::sync::Once: "INCOMPLETE" | "RUNNING" | "COMPLETE"
    new_pc,          \* thread -> its position in new()
    wrappers,        \* thread -> number of new() calls that returned to it
    init_calls       \* routine -> how often it has run in the process

onceVars == <<LIBXML2_INIT, new_pc, wrappers, init_calls>>

\* one compiled schema (XmlSchemaPtr behind an Arc) and its holders
VARIABLES
    strong_count,    \* the strong count of the Arc<XmlSchemaPtr>
    cache_entry,     \* the ParsedSchemaCache holds its Arc
    handle,          \* validator -> "none" | "queued" | "validating": the
                     \* Arc moved into its spawn_blocking closure
    free_calls       \* how often xmlSchemaFree ran on the schema

schemaVars == <<strong_count, cache_entry, handle, free_calls>>

\* the progress section of validate_files_with_progress
VARIABLES
    total_files,        \* files.len()
    progress_callback,  \* "Some" | "None"
    completed_count,    \* the AtomicUsize `completed`
    progress_pc,        \* per task: "validating" | "counted" | "returned"
    done,               \* per task: the local `done`
    callbacks,          \* the ValidationProgress values the callback received
    run_pc              \* "joining" | "returned"

progressVars == <<total_files, progress_callback, completed_count, progress_pc,
                  done, callbacks, run_pc>>

\* SchemaLoader::load_schema of one reference, up to the engine's parse
VARIABLES
    schema_source,   \* the SchemaSourceType of the reference
    schema_data,     \* the bytes the download or the file read yields
    content_pc,      \* "fetch" | "check" | "store" | "parse" | "parsed" | "failed"
    load_error,      \* the ValidationError of the resolution, if it failed
    parse_calls      \* the byte strings parse_schema_from_memory was called on

contentVars == <<schema_source, schema_data, content_pc, load_error, parse_calls>>

\* AsyncHttpClient::wait_before_retry over the retries of one fetch
VARIABLES
    retry_delay_ms,      \* config.retry_delay_ms
    max_retry_delay_ms,  \* config.max_retry_delay_ms
    retries,             \* config.retry_attempts
    attempt,             \* current_attempt of get_response_with_retry
    delays,              \* the capped_delay slept before each retry so far
    backoff_pc           \* "retrying" | "returned" | "panicked"

backoffVars == <<retry_delay_ms, max_retry_delay_ms, retries, attempt, delays, backoff_pc>>

\* validate_single_file_internal of files in several directories, over one
\* ParsedSchemaCache
VARIABLES
    declared,        \* per file: the schema location text of its declaration
    parsed_cache,    \* ParsedSchemaCache: key -> the source the entry was parsed from
    schema_ptr       \* per file: the source its compiled schema was parsed from

originVars == <<declared, parsed_cache, schema_ptr>>

\* SchemaExtractor::extract_schema_urls on one XML file
VARIABLES
    xml_lines,       \* the lines of the file
    lines_read,      \* how many lines next_line has yielded
    schema_refs,     \* the Vec of references pushed so far
    scan_pc,         \* "reading" | "done"
    schema_ref       \* what validate_single_file_internal makes of the result

extractVars == <<xml_lines, lines_read, schema_refs, scan_pc, schema_ref>>

\* the variables of the components that are checked on their own; no step of
\* the pipeline touches them
unitVars == <<cacheVars, loaderVars, httpVars, discoveryVars, sourceVars, validateVars, onceVars, schemaVars, extractVars, progressVars, contentVars, backoffVars, originVars>>

cfgVars == <<numFiles, maxConcurrent, failFast, disk0, unitVars>>
taskVars == <<pc, decl, outcome, permits, completed>>
flightVars == <<inflight, waitingOn, result, parsed, got>>
byteVars == <<mem, disk>>
retVars == <<ret, file_results>>
vars == <<cfgVars, taskVars, flightVars, byteVars, job, ops, retVars>>

\* the variables of the pipeline; no step of a component on its own touches them
pipelineVars ==
    <<numFiles, maxConcurrent, failFast, disk0, taskVars, flightVars, byteVars, job, ops, retVars>>

\* what a call on the cache leaves alone
outsideCache == <<pipelineVars, loaderVars, httpVars, discoveryVars, sourceVars, validateVars, onceVars, schemaVars, extractVars, progressVars, contentVars, backoffVars, originVars>>

\* what a step of the loader leaves alone, the cache apart
outsideLoader == <<pipelineVars, httpVars, discoveryVars, sourceVars, validateVars, onceVars, schemaVars, extractVars, progressVars, contentVars, backoffVars, originVars>>

\* what a step of a fetch leaves alone
outsideHttp == <<pipelineVars, cacheVars, loaderVars, discoveryVars, sourceVars, validateVars, onceVars, schemaVars, extractVars, progressVars, contentVars, backoffVars, originVars>>

\* what a step of a walk leaves alone
outsideDiscovery == <<pipelineVars, cacheVars, loaderVars, httpVars, sourceVars, validateVars, onceVars, schemaVars, extractVars, progressVars, contentVars, backoffVars, originVars>>

\* what a classification leaves alone
outsideSource == <<pipelineVars, cacheVars, loaderVars, httpVars, discoveryVars, validateVars, onceVars, schemaVars, extractVars, progressVars, contentVars, backoffVars, originVars>>

\* what a step of a file's validation leaves alone
outsideValidate == <<pipelineVars, cacheVars, loaderVars, httpVars, discoveryVars, sourceVars, onceVars, schemaVars, extractVars, progressVars, contentVars, backoffVars, originVars>>

\* what a step of the progress section leaves alone
outsideOnce == <<pipelineVars, cacheVars, loaderVars, httpVars, discoveryVars, sourceVars, validateVars, schemaVars, extractVars, progressVars, contentVars, backoffVars, originVars>>

\* what a step of the progress section leaves alone
outsideSchema == <<pipelineVars, cacheVars, loaderVars, httpVars, discoveryVars, sourceVars, validateVars, onceVars, extractVars, progressVars, contentVars, backoffVars, originVars>>

\* what a step of the scan leaves alone
outsideExtract == <<pipelineVars, cacheVars, loaderVars, httpVars, discoveryVars, sourceVars, validateVars, onceVars, schemaVars, progressVars, contentVars, backoffVars, originVars>>

\* what a step of the progress section leaves alone
outsideProgress == <<pipelineVars, cacheVars, loaderVars, httpVars, discoveryVars, sourceVars, validateVars, onceVars, schemaVars, extractVars, contentVars, backoffVars, originVars>>

\* what a step of the load leaves alone
outsideContent == <<pipelineVars, cacheVars, loaderVars, httpVars, discoveryVars, sourceVars, validateVars, onceVars, schemaVars, extractVars, progressVars, backoffVars, originVars>>

\* what a step of the backoff leaves alone
outsideBackoff == <<pipelineVars, cacheVars, loaderVars, httpVars, discoveryVars, sourceVars, validateVars, onceVars, schemaVars, extractVars, progressVars, contentVars, originVars>>

\* what the validation of one of these files leaves alone
outsideOrigin == <<pipelineVars, cacheVars, loaderVars, httpVars, discoveryVars, sourceVars, validateVars, onceVars, schemaVars, extractVars, progressVars, contentVars, backoffVars>>

Tasks == 1..numFiles

\* ------------------------------------------------------ pure functions

\* SchemaExtractor::determine_source_type
\* str::starts_with
starts_with(text, prefix) ==
    /\ Len(prefix) <= Len(text)
    /\ SubSeq(text, 1, Len(prefix)) = prefix

\* the position of the last separator of a path (0 if there is none)
LastSeparator(path) ==
    LET at == {i \in 1..Len(path) : path[i] = "/"} IN
    IF at = {} THEN 0 ELSE CHOOSE i \in at : \A j \in at : j <= i

\* Path::parent, for a path without trailing separator: <<"None">> for the
\* root and the empty path, else <<"Some", the path without its last component>>
parent(path) ==
    LET i == LastSeparator(path) IN
    IF path = <<>> \/ path = <<"/">> THEN <<"None">>
    ELSE IF i = 0 THEN <<"Some", <<>>>>
    ELSE IF i = 1 THEN <<"Some", <<"/">>>>
    ELSE <<"Some", SubSeq(path, 1, i - 1)>>

\* Path::join (PathBuf::push): an absolute argument replaces the base, a
\* separator is added unless the base is empty or ends with one
join(base, rel) ==
    IF starts_with(rel, <<"/">>) THEN rel
    ELSE IF base = <<>> \/ base[Len(base)] = "/" THEN base \o rel
    ELSE base \o <<"/">> \o rel

Remote(u) == [tag |-> "Remote", value |-> u]
Local(path) == [tag |-> "Local", value |-> path]
NoSourceType == [tag |-> "-", value |-> <<>>]

\* mutant of determine_source_type: only the http scheme counts as remote
determine_source_type_http_only(u, xml_path) ==
    IF starts_with(u, <<"h", "t", "t", "p", ":", "/", "/">>)
    THEN Remote(u)
    ELSE LET schema_path ==
                 IF starts_with(u, <<"/">>) THEN u
                 ELSE join(IF parent(xml_path) = <<"None">> THEN <<".">>
                           ELSE parent(xml_path)[2], u)
         IN Local(schema_path)

determine_source_type(u, xml_path) ==
    IF starts_with(u, <<"h", "t", "t", "p", ":", "/", "/">>) \/ starts_with(u, <<"h", "t", "t", "p", "s", ":", "/", "/">>)
    THEN Remote(u)
    ELSE LET schema_path ==
                 IF starts_with(u, <<"/">>) THEN u
                 ELSE join(IF parent(xml_path) = <<"None">> THEN <<".">>
                           ELSE parent(xml_path)[2], u)
         IN Local(schema_path)

\* the characters of the schema URIs of the pipeline, and the XML file
\* that refers to them
UrlText(u) == IF u = "http://h/a.xsd" THEN <<"h", "t", "t", "p", ":", "/", "/", "h", "/", "a", ".", "x", "s", "d">> ELSE <<"b", ".", "x", "s", "d">>
XmlFilePath == <<"/", "d", "/", "f", ".", "x", "m", "l">>

\* the schema URIs and XML file paths determine_source_type is called with
SchemaUris ==
    {<<"h", "t", "t", "p", ":", "/", "/", "h", "/", "a">>,
     <<"h", "t", "t", "p", "s", ":", "/", "/", "h", "/", "a">>,
     <<"/", "a", "b", "s", "/", "b">>,
     <<"b">>,
     <<".", ".", "/", "c">>,
     <<"H", "T", "T", "P", ":", "/", "/", "h", "/", "a">>,
     <<"f", "t", "p", ":", "/", "/", "h", "/", "a">>,
     <<"h", "t", "t", "p", ":", "/", "h">>,
     <<"h", "t", "t", "p", "s", ":">>,
     <<"h", "t", "t", "p", "x", ":", "/", "/", "h">>,
     <<"/", "/", "h", "/", "a">>,
     <<>>}
XmlFilePaths ==
    {<<"/", "d", "/", "f">>,
     <<"f">>,
     <<"d", "/", "f">>,
     <<"/", "f">>,
     <<"/", "d", "/", "e", "/", "f">>}

SourceInit ==
    /\ url \in SchemaUris
    /\ xml_file_path \in XmlFilePaths
    /\ source_type = NoSourceType

\* no call is made
SourceIdle == SourceInit /\ url = <<"b">> /\ xml_file_path = <<"f">>

\* FileValidationResult::valid / invalid / error / skipped
FileValidationResult_valid(u) ==
    [status |-> "Valid", detail |-> "-", error_count |-> 0, schema_url |-> u]
FileValidationResult_invalid(u, n) ==
    [status |-> "Invalid", detail |-> "-", error_count |-> n, schema_url |-> u]
FileValidationResult_error(e) ==
    [status |-> "Error", detail |-> e, error_count |-> 0, schema_url |-> "-"]
FileValidationResult_skipped ==
    [status |-> "Skipped", detail |-> "No schema URL", error_count |-> 0, schema_url |-> "-"]

\* ValidationResult::from_code followed by the match of
\* validate_single_file_internal: the file outcome for engine return code c
from_code(u, c) ==
    IF c = 0 THEN FileValidationResult_valid(u)
    ELSE IF c > 0 THEN FileValidationResult_invalid(u, c)
    ELSE FileValidationResult_error("ValidationFailed")

\* ValidationResults::aggregate: the counting loop over file_results
RECURSIVE CountStatus(_, _, _)
CountStatus(rs, i, s) ==
    IF i > Len(rs) THEN 0
    ELSE (IF rs[i].status = s THEN 1 ELSE 0) + CountStatus(rs, i + 1, s)

aggregate(rs) ==
    [total_files |-> Len(rs),
     valid_files |-> CountStatus(rs, 1, "Valid"),
     invalid_files |-> CountStatus(rs, 1, "Invalid"),
     error_files |-> CountStatus(rs, 1, "Error"),
     skipped_files |-> CountStatus(rs, 1, "Skipped")]

\* ------------------------------------------------- the cache component

\* the last instant of the clock
MaxNow == 2

\* the url whose entry the calls are made on, and the urls a caller of
\* DiskCache::set may put in the metadata
CacheUrls == {"u1"}
MetadataUrls == {"u1", "u2"}
Bytes == {"B0", "B1"}
Instants == 0..MaxNow

\* DiskCache::generate_key: "schema_" and the 64-bit hash of the url in hex
\* (distinct for the urls of the model)
generate_key(u) == IF u = "u1" THEN "schema_1" ELSE "schema_2"

Keys == {generate_key(u) : u \in CacheUrls}

\* CacheMetadata, reduced to the fields the cache reads
CacheMetadata == [url : MetadataUrls, expires_at : Instants]

\* CacheMetadata::is_expired at instant t
is_expired(m, t) == t > m.expires_at

\* serde_json::to_string_pretty(metadata): the text of the metadata file, as
\* its sequence of tokens
to_string_pretty(m) == <<"{", m.url, m.expires_at, "}">>

\* serde_json::from_str::<CacheMetadata>(content): only a complete text parses
from_str(c) ==
    IF Len(c) = 4
    THEN [ok |-> TRUE, url |-> c[2], expires_at |-> c[3]]
    ELSE [ok |-> FALSE, url |-> "-", expires_at |-> 0]

NotFound == [exists |-> FALSE, content |-> <<>>]
File(c) == [exists |-> TRUE, content |-> c]

\* Option<CachedSchema> / CacheResult values, as records of one shape
ReturnsNone == [tag |-> "None", data |-> "-", url |-> "-", expires_at |-> 0]
ReturnsErr == [tag |-> "Err", data |-> "-", url |-> "-", expires_at |-> 0]
ReturnsOk == [tag |-> "Ok", data |-> "-", url |-> "-", expires_at |-> 0]
ReturnsBool(b) ==
    [tag |-> IF b THEN "true" ELSE "false", data |-> "-", url |-> "-", expires_at |-> 0]
\* CachedSchema::new(data, metadata)
CachedSchema(d, m) ==
    [tag |-> "Some", data |-> d, url |-> m.url, expires_at |-> m.expires_at]

NoCall == [op |-> "-", key |-> "-", value |-> ReturnsNone, tier |-> "-"]
NoSet ==
    [key |-> "-", data |-> "-", metadata |-> [url |-> "-", expires_at |-> 0],
     old |-> ReturnsNone]
Unknown == [tag |-> "unknown", entry |-> ReturnsNone, old |-> ReturnsNone]

\* DiskCache::get_metadata(key)
get_metadata(k) ==
    IF ~metadata_file[k].exists THEN ReturnsNone
    ELSE LET m == from_str(metadata_file[k].content) IN
         IF m.ok THEN CachedSchema("-", m) ELSE ReturnsErr

\* the value DiskCache::get(key) returns at the present instant
DiskCache_get_value(k) ==
    LET m == get_metadata(k) IN
    IF m.tag = "Err" THEN ReturnsErr
    ELSE IF m.tag = "None" \/ is_expired(m, now) THEN ReturnsNone
    ELSE IF cacache[k] = "EntryNotFound" THEN ReturnsNone
    ELSE CachedSchema(cacache[k], m)

\* whether DiskCache::get(key) takes its clean-up branch (self.remove(key))
DiskCache_get_removes(k) ==
    LET m == get_metadata(k) IN
    m.tag # "Err" /\ (m.tag = "None" \/ is_expired(m, now))

\* an empty cache directory and an empty memory tier
CacheInit ==
    /\ now = 0
    /\ cacache = [k \in Keys |-> "EntryNotFound"]
    /\ metadata_file = [k \in Keys |-> NotFound]
    /\ memory_cache = [k \in Keys |-> ReturnsNone]
    /\ set_pending = NoSet
    /\ cache_ret = NoCall
    /\ history = [k \in Keys |-> Unknown]

CacheIdle == CacheInit /\ ttl = 1

\* ---------------------------------------- the loader over two runs

Runs == {"A", "B"}

\* what parse_schema_from_memory (parses) and validate_file (code) make of
\* the file and one schema text
Verdicts == [parses : BOOLEAN, code : {0, 2}]

\* before run A has started
LoaderInit ==
    /\ run = "A"
    /\ server \in Bytes
    /\ engine \in [Bytes -> Verdicts]
    /\ load_pc = "idle"
    /\ loaded = [r \in Runs |-> "-"]
    /\ downloads = [r \in Runs |-> 0]
    /\ run_outcome = [r \in Runs |-> NoOutcome]
    /\ persisted = ReturnsNone

LoaderIdle ==
    LoaderInit /\ server = "B0" /\ engine = [b \in Bytes |-> [parses |-> TRUE, code |-> 0]]

\* ------------------------------------------------------ the HTTP client

\* the largest retry_attempts of the configuration
MaxRetries == 2

\* what one make_request can return: a response with a status, the
\* ValidationError::Timeout of its own timeout, or a reqwest error, which
\* is_timeout() / is_connect() / is_request() or none of these
StatusCodes == {200, 304, 404, 500}
Response(s) == [kind |-> "status", status |-> s]
Responses ==
    {Response(s) : s \in StatusCodes}
        \cup {[kind |-> k, status |-> 0] : k \in {"Timeout", "Http:connect", "Http:builder"}}

\* StatusCode::is_success, is_client_error, is_server_error
is_success(s) == 200 <= s /\ s <= 299
is_client_error(s) == 400 <= s /\ s <= 499
is_server_error(s) == 500 <= s /\ s <= 599

\* AsyncHttpClient::is_retryable_error
is_retryable_error(r) == r.kind \in {"Timeout", "Http:connect"}

\* the result of a fetch: Ok(bytes), or the ValidationError
HttpOk == [tag |-> "Ok", status |-> 0]
HttpError(r) ==
    IF r.kind = "status" THEN [tag |-> "HttpStatus", status |-> r.status]
    ELSE [tag |-> r.kind, status |-> 0]
NoReturn == [tag |-> "-", status |-> 0]

\* download_schema(url) was called: download_with_retry(url, 0)
HttpInit ==
    /\ retry_attempts \in 0..MaxRetries
    /\ current_attempt = 0
    /\ responses = <<>>
    /\ waits = <<>>
    /\ http_pc = "request"
    /\ http_ret = NoReturn

\* no fetch is made
HttpIdle == HttpInit /\ retry_attempts = 0

\* ------------------------------------------- validate_file and its match

\* the largest return code of xmlSchemaValidateFile, and the most errors it
\* reports to the callback
MaxCode == 3
MaxErrors == 3

\* c_int return codes of xmlSchemaValidateFile: 0 for a valid document, a
\* positive error code otherwise, -1 for an internal or API error
ResultCodes == -1..MaxCode

\* the messages of the xmlError records handed to the callback
Messages == {"m1", "m2"}

NoCode == [returned |-> FALSE, code |-> 0]
Code(c) == [returned |-> TRUE, code |-> c]

\* the url of the schema the file is validated against
TargetUrl == "http://h/a.xsd"

\* FileValidationResult::valid / invalid / error with error_details
FileResult_valid(u) ==
    [status |-> "Valid", error_count |-> 0, schema_url |-> u,
     message |-> "-", error_details |-> <<>>]
FileResult_invalid(u, n, details) ==
    [status |-> "Invalid", error_count |-> n, schema_url |-> u,
     message |-> "-", error_details |-> details]
FileResult_error(e) ==
    [status |-> "Error", error_count |-> 0, schema_url |-> "None",
     message |-> e, error_details |-> <<e>>]
NoFileResult ==
    [status |-> "None", error_count |-> 0, schema_url |-> "None",
     message |-> "-", error_details |-> <<>>]

\* mutant of ValidationResult::from_code: the sign of the code is not looked
\* at, every non-zero code is Invalid
ValidationResult_from_code_unsigned(code, errs) ==
    IF code = 0 THEN [tag |-> "Valid", error_count |-> 0, errors |-> <<>>, code |-> 0]
    ELSE [tag |-> "Invalid", error_count |-> code, errors |-> errs, code |-> 0]

\* ValidationResult::from_code(code, errors)
ValidationResult_from_code(code, errs) ==
    IF code = 0 THEN [tag |-> "Valid", error_count |-> 0, errors |-> <<>>, code |-> 0]
    ELSE IF code > 0
         THEN [tag |-> "Invalid", error_count |-> code, errors |-> errs, code |-> 0]
    ELSE [tag |-> "InternalError", error_count |-> 0, errors |-> <<>>, code |-> code]

ValidateInit ==
    /\ validate_pc = "start"
    /\ errors = <<>>
    /\ result_code = NoCode
    /\ file_result = NoFileResult

\* no file is validated
ValidateIdle == ValidateInit

\* ------------------------------------------------- LibXml2Wrapper::new

\* the threads that call new(), and the calls each of them makes
MaxThreads == 3
MaxCalls == 3

Threads == 1..MaxThreads

InitRoutines == {"xmlInitParser", "xmlInitGlobals"}

OnceInit ==
    /\ LIBXML2_INIT = "INCOMPLETE"
    /\ new_pc = [t \in Threads |-> "idle"]
    /\ wrappers = [t \in Threads |-> 0]
    /\ init_calls = [r \in InitRoutines |-> 0]

\* no thread calls new()
OnceIdle == OnceInit

\* ----------------------------------------------- compiled-schema lifetime

\* the validators that take a handle to the schema
MaxValidators == 4

Validators == 1..MaxValidators

\* parse_schema_from_memory succeeded: XmlSchemaPtr::from_raw and Arc::new
\* made the one Arc, which get_or_load inserted into the cache
SchemaInit ==
    /\ strong_count = 1
    /\ cache_entry = TRUE
    /\ handle = [v \in Validators |-> "none"]
    /\ free_calls = 0

\* no validator touches the schema
SchemaIdle == SchemaInit

\* ------------------------------------------------------ progress count

\* the most files of a run whose progress is counted
MaxTasks == 3

ProgressTasks == 1..total_files

ProgressInit ==
    /\ total_files \in 0..MaxTasks
    /\ progress_callback \in {"Some", "None"}
    /\ completed_count = 0
    /\ progress_pc = [t \in 1..total_files |-> "validating"]
    /\ done = [t \in 1..total_files |-> 0]
    /\ callbacks = <<>>
    /\ run_pc = "joining"

ProgressIdle ==
    ProgressInit /\ total_files = 0 /\ progress_callback = "None"

\* ---------------------------------------------------- content check

\* the most pieces of a schema text
MaxPieces == 3

\* the pieces a byte string is made of: white space, the markers the check
\* looks for, other markup, other text, and a byte that is not UTF-8
Pieces == {"ws", "<?xml", "<xs:schema", "<xsd:schema", "<schema", "<html",
           "text", "0xFF"}

SchemaData == UNION {[1..n -> Pieces] : n \in 0..MaxPieces}

SchemaSources == {[tag |-> "Local", value |-> "/r/s.xsd"],
                  [tag |-> "Remote", value |-> "http://h/s.xsd"]}

NoLoadError == [kind |-> "none", url |-> "-"]

ContentInit ==
    /\ schema_source \in SchemaSources
    /\ schema_data \in SchemaData
    /\ content_pc = "fetch"
    /\ load_error = NoLoadError
    /\ parse_calls = {}

ContentIdle ==
    ContentInit /\ schema_source.tag = "Local" /\ schema_data = <<>>

\* ------------------------------------------------------------ backoff

\* the width of the unsigned words of the delay computation (64 in the
\* program)
WordBits == 6

Word == 2 ^ WordBits

\* the configured delays tried: every word
DelayValues == 0..(Word - 1)

BackoffInit ==
    /\ retry_delay_ms \in DelayValues
    /\ max_retry_delay_ms \in {0, 5, 30, Word - 1}
    /\ retries \in 0..(MaxRetries + 1)
    /\ attempt = 0
    /\ delays = <<>>
    /\ backoff_pc = "retrying"

BackoffIdle ==
    BackoffInit /\ retry_delay_ms = 1 /\ max_retry_delay_ms = 30 /\ retries = 0

\* ------------------------------------------------ schema of a file's origin

\* the files of the run: two in directory /d, one in directory /e
OriginFiles ==
    {<<"/", "d", "/", "f">>, <<"/", "d", "/", "g">>, <<"/", "e", "/", "f">>}

\* the schema location texts they declare: relative, absolute, remote
Locations ==
    {<<"b">>, <<".", ".", "/", "c">>, <<"/", "a", "b", "s", "/", "b">>,
     <<"h", "t", "t", "p", ":", "/", "/", "h", "/", "a">>}

\* no compiled schema (yet)
NoSchemaPtr == [tag |-> "None", value |-> <<>>]

OriginInit ==
    /\ declared \in [OriginFiles -> Locations]
    /\ parsed_cache = [key \in Locations |-> NoSchemaPtr]
    /\ schema_ptr = [file \in OriginFiles |-> NoSchemaPtr]

OriginIdle == OriginInit /\ declared = [file \in OriginFiles |-> <<"b">>]

\* ------------------------------------------------- extract_schema_urls

\* the most lines of an XML file
MaxLines == 3

\* a line, by what the scan asks of it: whether schema_location_regex and
\* no_namespace_regex capture a URI on it, and whether line.trim_start()
\* starts with "</"
XmlLines == [schemaLocation : BOOLEAN, noNamespaceSchemaLocation : BOOLEAN, closing : BOOLEAN]

\* a SchemaReference, named by the line and the attribute it was captured from
SchemaReference(i, a) == [tag |-> "Some", line |-> i, attribute |-> a]
NoReference == [tag |-> "None", line |-> 0, attribute |-> "-"]
Skipped == [tag |-> "Skipped", line |-> 0, attribute |-> "-"]

ExtractInit ==
    /\ xml_lines \in UNION {[1..n -> XmlLines] : n \in 0..MaxLines}
    /\ lines_read = 0
    /\ schema_refs = <<>>
    /\ scan_pc = "reading"
    /\ schema_ref = NoReference

\* no file is scanned
ExtractIdle == ExtractInit /\ xml_lines = <<>>

\* ----------------------------------------------------- file discovery

\* the nesting of the directory tree that is walked
TreeDepth == 2

\* the tree, as the names in each directory (a path is the sequence of the
\* names below the root): regular files, a symlink to a file, directories
Entries(dir) ==
    IF dir = <<>> THEN {"a.xml", "B.XML", "c.txt", "link.xml", "sub", "ignored"}
    ELSE IF dir[Len(dir)] = "ignored" THEN {"g.xml"}
    ELSE {"e.xml"} \cup (IF Len(dir) < TreeDepth THEN {"sub"} ELSE {})

\* entry_path.is_symlink()
is_symlink(path) == path[Len(path)] = "link.xml"

\* fs::metadata(path).is_dir(), else is_file()
is_dir(path) == path[Len(path)] \in {"sub", "ignored"}

\* Path::extension as a string ("-" is None)
extension(name) ==
    CASE name \in {"a.xml", "e.xml", "g.xml", "link.xml"} -> "xml"
      [] name = "B.XML" -> "XML"
      [] name = "c.txt" -> "txt"
      [] OTHER -> "-"

\* str::to_lowercase on an extension
to_lowercase(e) == IF e = "XML" THEN "xml" ELSE e

\* the text of the root directory, as its segments ("/r")
RootPath == <<"", "r">>

\* path.to_string_lossy(), as the segments between the separators
to_string_lossy(path) == RootPath \o path

\* the regex glob_to_regex makes of a glob, for globs made of whole
\* segments: "**/" is (?:.*/)?, a final "**" is .*, "*.e" is [^/]*\.e, any
\* other segment is itself
DSlash == [t |-> "**/", v |-> "-"]
DStar == [t |-> "**", v |-> "-"]
StarExt(e) == [t |-> "*.", v |-> e]
Lit(n) == [t |-> "lit", v |-> n]

\* Regex::is_match of such a regex (tokens from i) on the segments from j
RECURSIVE Match(_, _, _, _)
Match(pat, i, segs, j) ==
    IF i > Len(pat) THEN j > Len(segs)
    ELSE CASE pat[i].t = "**/" ->
                \E k \in j..Len(segs) : Match(pat, i + 1, segs, k)
           [] pat[i].t = "**" ->
                i = Len(pat) /\ j <= Len(segs)
           [] pat[i].t = "*." ->
                /\ j <= Len(segs)
                /\ extension(segs[j]) = pat[i].v
                /\ Match(pat, i + 1, segs, j + 1)
           [] OTHER ->
                /\ j <= Len(segs)
                /\ segs[j] = pat[i].v
                /\ Match(pat, i + 1, segs, j + 1)

is_match(pat, path) == Match(pat, 1, to_string_lossy(path), 1)

\* the globs "**/ignored/**", "**/*.xml" and "**/sub/**"
GlobIgnored == <<DSlash, Lit("ignored"), DStar>>
GlobXml == <<DSlash, StarExt("xml")>>
GlobSub == <<DSlash, Lit("sub"), DStar>>

\* mutant of should_process: an include match accepts the path before the
\* exclude patterns are looked at
should_process_include_first(path) ==
    LET e == extension(path[Len(path)]) IN
    IF e = "-" \/ to_lowercase(e) \notin extensions THEN FALSE
    ELSE IF \E i \in 1..Len(include_patterns) : is_match(include_patterns[i], path)
         THEN TRUE
    ELSE IF \E i \in 1..Len(exclude_patterns) : is_match(exclude_patterns[i], path)
         THEN FALSE
    ELSE include_patterns = <<>>

\* FileDiscovery::should_process(path)
should_process(path) ==
    LET e == extension(path[Len(path)]) IN
    IF e = "-" \/ to_lowercase(e) \notin extensions THEN FALSE
    ELSE IF \E i \in 1..Len(exclude_patterns) : is_match(exclude_patterns[i], path)
         THEN FALSE
    ELSE IF include_patterns # <<>>
         THEN \E i \in 1..Len(include_patterns) : is_match(include_patterns[i], path)
    ELSE TRUE

\* discover_files(root) is called, for every configuration of the
\* FileDiscovery, on a root that is a directory or a regular file
DiscoveryInit ==
    /\ extensions \in {{"xml"}, {"xml", "txt"}}
    /\ include_patterns \in {<<>>, <<GlobXml>>, <<GlobSub, GlobIgnored>>}
    /\ exclude_patterns \in {<<>>, <<GlobIgnored>>}
    /\ max_depth \in -1..TreeDepth
    /\ follow_symlinks \in BOOLEAN
    /\ root_kind \in {"dir", "file"}
    /\ frames = <<>>
    /\ files = <<>>
    /\ descended = {}
    /\ walk_pc = "start"

\* no walk is made
DiscoveryIdle ==
    /\ DiscoveryInit
    /\ extensions = {"xml"} /\ include_patterns = <<>> /\ exclude_patterns = <<>>
    /\ max_depth = -1 /\ follow_symlinks = FALSE /\ root_kind = "dir"

\* ------------------------------------------------------------- Init
\* the state when validate_files_with_progress has spawned its tasks, for
\* every file count, concurrency limit and content of the disk tier
InitRun ==
    /\ numFiles \in 0..MaxFiles
    /\ maxConcurrent \in 1..MaxConcurrent
    /\ pc = [f \in Files |-> IF f <= numFiles THEN "spawned" ELSE "absent"]
    /\ decl = [f \in Files |-> "-"]
    /\ outcome = [f \in Files |-> NoOutcome]
    /\ permits = maxConcurrent
    /\ completed = 0
    /\ inflight = [u \in Urls |-> 0]
    /\ waitingOn = [f \in Files |-> 0]
    /\ result = [f \in Files |-> "none"]
    /\ parsed = [u \in Urls |-> 0]
    /\ got = [f \in Files |-> 0]
    /\ mem = [u \in Urls |-> FALSE]
    /\ disk \in [Urls -> {"absent", "valid"}]
    /\ disk0 = disk
    /\ job = [f \in Files |-> "none"]
    /\ ops = [f \in Files |-> {}]
    /\ ret = "running"
    /\ file_results = <<>>

\* a process in which no validation run was started
PipelineIdle ==
    /\ InitRun /\ failFast = FALSE
    /\ numFiles = 0 /\ maxConcurrent = 1
    /\ disk = [u \in Urls |-> "absent"]

\* the components that are checked on their own, at rest
UnitsIdle == CacheIdle /\ LoaderIdle /\ HttpIdle /\ DiscoveryIdle /\ SourceIdle /\ ValidateIdle /\ OnceIdle /\ SchemaIdle /\ ExtractIdle /\ ProgressIdle /\ ContentIdle /\ BackoffIdle /\ OriginIdle

\* a run with fail_fast off, the default of ValidationConfig
Init == InitRun /\ failFast = FALSE /\ UnitsIdle

\* a run with fail_fast on
InitFailFast == InitRun /\ failFast = TRUE /\ UnitsIdle

\* ------------------------------------------------------ task plumbing

\* mutant of TaskReturns: the permit of a finished task is not given back
TaskReturns_keeps_permit(f, o) ==
    /\ outcome' = [outcome EXCEPT ![f] = o]
    /\ pc' = [pc EXCEPT ![f] = "done"]
    /\ permits' = permits
    /\ completed' = completed + 1

\* the tail of the spawned task: the outcome is fixed, the progress counter
\* is bumped, the task returns and its permit is dropped
TaskReturns(f, o) ==
    /\ outcome' = [outcome EXCEPT ![f] = o]
    /\ pc' = [pc EXCEPT ![f] = "done"]
    /\ permits' = permits + 1
    /\ completed' = completed + 1

\* mutant of AcquirePermit: the task proceeds without waiting for a free
\* permit
AcquirePermit_unbounded(f) ==
    /\ pc[f] = "spawned"
    /\ permits' = permits - 1
    /\ pc' = [pc EXCEPT ![f] = "extract"]
    /\ UNCHANGED <<cfgVars, decl, outcome, completed, flightVars, byteVars, job, ops, retVars>>

\* semaphore.acquire().await
AcquirePermit(f) ==
    /\ pc[f] = "spawned"
    /\ permits > 0
    /\ permits' = permits - 1
    /\ pc' = [pc EXCEPT ![f] = "extract"]
    /\ UNCHANGED <<cfgVars, decl, outcome, completed, flightVars, byteVars, job, ops, retVars>>

\* mutant of extract_schema_urls: the cache is asked before the absence of a
\* declaration is noticed
extract_schema_urls_looks_up_first(f) ==
    /\ pc[f] = "extract"
    /\ \E r \in {"none", "io_error"} \cup Urls :
         CASE r = "none" ->
                /\ TaskReturns(f, FileValidationResult_skipped)
                /\ ops' = [ops EXCEPT ![f] = @ \cup {"disk_read"}]
                /\ UNCHANGED decl
           [] r = "io_error" ->
                /\ TaskReturns(f, FileValidationResult_error("Io"))
                /\ UNCHANGED <<decl, ops>>
           [] OTHER ->
                /\ decl' = [decl EXCEPT ![f] = r]
                /\ pc' = [pc EXCEPT ![f] = "resolve"]
                /\ UNCHANGED <<outcome, permits, completed, ops>>
    /\ UNCHANGED <<cfgVars, flightVars, byteVars, job, retVars>>

\* extractor().extract_schema_urls(&file_path) and the match on its result
extract_schema_urls(f) ==
    /\ pc[f] = "extract"
    /\ \E r \in {"none", "io_error"} \cup Urls :
         CASE r = "none" ->
                /\ TaskReturns(f, FileValidationResult_skipped)
                /\ UNCHANGED decl
           [] r = "io_error" ->
                /\ TaskReturns(f, FileValidationResult_error("Io"))
                /\ UNCHANGED decl
           [] OTHER ->
                /\ decl' = [decl EXCEPT ![f] = r]
                /\ pc' = [pc EXCEPT ![f] = "resolve"]
                /\ UNCHANGED <<outcome, permits, completed>>
    /\ UNCHANGED <<cfgVars, flightVars, byteVars, job, ops, retVars>>

\* the continuation of a task that obtained the compiled schema h from
\* get_or_load: tokio::task::spawn_blocking(validate_file) and its await
ReceivesSchema(f, h) ==
    /\ got' = [got EXCEPT ![f] = h]
    /\ pc' = [pc EXCEPT ![f] = "await_validate"]
    /\ job' = [job EXCEPT ![f] = "validate_q"]

\* the continuation of a leader whose load_schema returned the bytes:
\* tokio::task::spawn_blocking(parse_schema_from_memory) and its await
ReceivesBytes(f) ==
    /\ pc' = [pc EXCEPT ![f] = "await_parse"]
    /\ job' = [job EXCEPT ![f] = "parse_q"]

\* mutant of try_get_with: callers are not coalesced, every caller that finds
\* no entry runs its own init future
try_get_with_uncoalesced(f) ==
    LET u == decl[f] IN
    IF parsed[u] # 0 THEN
        /\ ReceivesSchema(f, parsed[u])
        /\ waitingOn' = [waitingOn EXCEPT ![f] = 0]
        /\ UNCHANGED <<inflight, result>>
    ELSE
        /\ inflight' = [inflight EXCEPT ![u] = f]
        /\ result' = [result EXCEPT ![f] = "computing"]
        /\ waitingOn' = [waitingOn EXCEPT ![f] = 0]
        /\ pc' = [pc EXCEPT ![f] = "load"]
        /\ UNCHANGED <<got, job>>

\* mutant of try_get_with: the present entry is not consulted, the init
\* future runs (or is waited for) on every call
try_get_with_ignores_entry(f) ==
    LET u == decl[f] IN
    IF inflight[u] # 0 THEN
        /\ waitingOn' = [waitingOn EXCEPT ![f] = inflight[u]]
        /\ pc' = [pc EXCEPT ![f] = "waiting"]
        /\ UNCHANGED <<inflight, result, got, job>>
    ELSE
        /\ inflight' = [inflight EXCEPT ![u] = f]
        /\ result' = [result EXCEPT ![f] = "computing"]
        /\ waitingOn' = [waitingOn EXCEPT ![f] = 0]
        /\ pc' = [pc EXCEPT ![f] = "load"]
        /\ UNCHANGED <<got, job>>

\* moka try_get_with(key, init): a present entry is returned; otherwise the
\* caller reads the waiter already installed for the key, or installs its own
\* waiter and starts its init future
try_get_with(f) ==
    LET u == decl[f] IN
    IF parsed[u] # 0 THEN
        /\ ReceivesSchema(f, parsed[u])
        /\ waitingOn' = [waitingOn EXCEPT ![f] = 0]
        /\ UNCHANGED <<inflight, result>>
    ELSE IF inflight[u] # 0 THEN
        /\ waitingOn' = [waitingOn EXCEPT ![f] = inflight[u]]
        /\ pc' = [pc EXCEPT ![f] = "waiting"]
        /\ UNCHANGED <<inflight, result, got, job>>
    ELSE
        /\ inflight' = [inflight EXCEPT ![u] = f]
        /\ result' = [result EXCEPT ![f] = "computing"]
        /\ waitingOn' = [waitingOn EXCEPT ![f] = 0]
        /\ pc' = [pc EXCEPT ![f] = "load"]
        /\ UNCHANGED <<got, job>>

\* schema_loader.cache().parsed().get_or_load(target_url, loader)
get_or_load(f) ==
    /\ pc[f] = "resolve"
    /\ try_get_with(f)
    /\ UNCHANGED <<cfgVars, decl, outcome, permits, completed, parsed, byteVars, ops, retVars>>

\* a caller that waited on another caller's waiter reads its value: the
\* compiled schema, the leader's error, or (leader cancelled) it starts over
WaiterReads(f) ==
    /\ pc[f] = "waiting"
    /\ result[waitingOn[f]] # "computing"
    /\ LET l == waitingOn[f] IN
         CASE result[l] = "ok" ->
                /\ ReceivesSchema(f, l)
                /\ waitingOn' = [waitingOn EXCEPT ![f] = 0]
                /\ UNCHANGED <<inflight, result, outcome, permits, completed>>
           [] result[l] \in BuildErrors ->
                /\ TaskReturns(f, FileValidationResult_error(result[l]))
                /\ waitingOn' = [waitingOn EXCEPT ![f] = 0]
                /\ UNCHANGED <<inflight, result, got, job>>
           [] OTHER ->
                /\ try_get_with(f)
                /\ UNCHANGED <<outcome, permits, completed>>
    /\ UNCHANGED <<cfgVars, decl, parsed, byteVars, ops, retVars>>

\* mutant of BuildFails: the failed waiter stays installed, so the failure
\* is remembered for the url
BuildFails_remembered(f, e) ==
    /\ result' = [result EXCEPT ![f] = e]
    /\ UNCHANGED inflight
    /\ TaskReturns(f, FileValidationResult_error(e))

\* the leader's init future ends with error e: the waiter is set to the error
\* and removed, nothing is inserted, the leader's file gets an Error outcome
BuildFails(f, e) ==
    /\ result' = [result EXCEPT ![f] = e]
    /\ inflight' = [inflight EXCEPT ![decl[f]] = 0]
    /\ TaskReturns(f, FileValidationResult_error(e))

\* SchemaLoader::load_schema up to the fetch: SchemaCache::get (memory tier,
\* then disk tier with promotion); on a miss the download / file read starts
load_schema(f) ==
    /\ pc[f] = "load"
    /\ LET u == decl[f]
           fetch == IF determine_source_type(UrlText(u), XmlFilePath).tag = "Remote" THEN "download" ELSE "file_read"
       IN
         IF mem[u] THEN
            /\ ReceivesBytes(f)
            /\ UNCHANGED <<mem, ops>>
         ELSE IF disk[u] = "valid" THEN
            /\ mem' = [mem EXCEPT ![u] = TRUE]
            /\ ops' = [ops EXCEPT ![f] = @ \cup {"disk_read"}]
            /\ ReceivesBytes(f)
         ELSE
            /\ ops' = [ops EXCEPT ![f] = @ \cup {"disk_read", fetch}]
            /\ pc' = [pc EXCEPT ![f] = "fetching"]
            /\ UNCHANGED <<mem, job>>
    /\ UNCHANGED <<cfgVars, decl, outcome, permits, completed, flightVars, disk, retVars>>

\* download_schema(url) / tokio::fs::read(path) returns, then
\* validate_schema_content checks the bytes
fetch_returns(f) ==
    /\ pc[f] = "fetching"
    /\ \E r \in {"ok", "failed", "not_a_schema"} :
         CASE r = "ok" ->
                /\ pc' = [pc EXCEPT ![f] = "storing"]
                /\ UNCHANGED <<outcome, permits, completed, inflight, result>>
           [] r = "failed" -> BuildFails(f, "SchemaNotFound")
           [] OTHER -> BuildFails(f, "SchemaParsing")
    /\ UNCHANGED <<cfgVars, decl, waitingOn, parsed, got, byteVars, job, ops, retVars>>

\* SchemaCache::set (memory tier first, then the disk tier, whose failure is
\* returned) followed by SchemaCache::get of the just-stored entry
cache_set(f) ==
    /\ pc[f] = "storing"
    /\ mem' = [mem EXCEPT ![decl[f]] = TRUE]
    /\ ops' = [ops EXCEPT ![f] = @ \cup {"disk_write"}]
    /\ \E written \in BOOLEAN :
         IF written THEN
            /\ disk' = [disk EXCEPT ![decl[f]] = "valid"]
            /\ ReceivesBytes(f)
            /\ UNCHANGED <<outcome, permits, completed, inflight, result>>
         ELSE
            /\ BuildFails(f, "Cache")
            /\ UNCHANGED <<disk, job>>
    /\ UNCHANGED <<cfgVars, decl, waitingOn, parsed, got, retVars>>

\* a blocking worker begins the closure calling parse_schema_from_memory
ParseStarts(f) ==
    /\ job[f] = "parse_q"
    /\ job' = [job EXCEPT ![f] = "parse"]
    /\ ops' = [ops EXCEPT ![f] = @ \cup {"parse"}]
    /\ UNCHANGED <<cfgVars, taskVars, flightVars, byteVars, retVars>>

\* mutant of ParseReturns: the compiled schema is handed to the leader and
\* its waiters but not inserted into the parsed-schema cache
ParseReturns_not_inserted(f) ==
    /\ job[f] = "parse"
    /\ IF pc[f] = "await_parse" THEN
         \E parsedOk \in BOOLEAN :
            IF parsedOk THEN
               /\ UNCHANGED parsed
               /\ result' = [result EXCEPT ![f] = "ok"]
               /\ inflight' = [inflight EXCEPT ![decl[f]] = 0]
               /\ ReceivesSchema(f, f)
               /\ UNCHANGED <<outcome, permits, completed>>
            ELSE
               /\ BuildFails(f, "SchemaParseFailed")
               /\ job' = [job EXCEPT ![f] = "none"]
               /\ UNCHANGED <<parsed, got>>
       ELSE
         /\ job' = [job EXCEPT ![f] = "none"]
         /\ UNCHANGED <<pc, outcome, permits, completed, inflight, result, parsed, got>>
    /\ UNCHANGED <<cfgVars, decl, waitingOn, byteVars, ops, retVars>>

\* parse_schema_from_memory returns; a leader still awaiting it inserts the
\* compiled schema and publishes it, a cancelled one's result is dropped
ParseReturns(f) ==
    /\ job[f] = "parse"
    /\ IF pc[f] = "await_parse" THEN
         \E parsedOk \in BOOLEAN :
            IF parsedOk THEN
               /\ parsed' = [parsed EXCEPT ![decl[f]] = f]
               /\ result' = [result EXCEPT ![f] = "ok"]
               /\ inflight' = [inflight EXCEPT ![decl[f]] = 0]
               /\ ReceivesSchema(f, f)
               /\ UNCHANGED <<outcome, permits, completed>>
            ELSE
               /\ BuildFails(f, "SchemaParseFailed")
               /\ job' = [job EXCEPT ![f] = "none"]
               /\ UNCHANGED <<parsed, got>>
       ELSE
         /\ job' = [job EXCEPT ![f] = "none"]
         /\ UNCHANGED <<pc, outcome, permits, completed, inflight, result, parsed, got>>
    /\ UNCHANGED <<cfgVars, decl, waitingOn, byteVars, ops, retVars>>

\* mutant of ValidateStarts: validate_file calls take a process-wide lock
ValidateStarts_serialized(f) ==
    /\ job[f] = "validate_q"
    /\ \A g \in Files : job[g] # "validate"
    /\ job' = [job EXCEPT ![f] = "validate"]
    /\ ops' = [ops EXCEPT ![f] = @ \cup {"validate"}]
    /\ UNCHANGED <<cfgVars, taskVars, flightVars, byteVars, retVars>>

\* a blocking worker begins the closure calling validate_file
ValidateStarts(f) ==
    /\ job[f] = "validate_q"
    /\ job' = [job EXCEPT ![f] = "validate"]
    /\ ops' = [ops EXCEPT ![f] = @ \cup {"validate"}]
    /\ UNCHANGED <<cfgVars, taskVars, flightVars, byteVars, retVars>>

\* validate_file returns engine code c; a task still awaiting it maps the
\* code to its outcome, a cancelled one's result is dropped
ValidateReturns(f) ==
    /\ job[f] = "validate"
    /\ job' = [job EXCEPT ![f] = "none"]
    /\ IF pc[f] = "await_validate" THEN
         \E c \in EngineCodes : TaskReturns(f, from_code(decl[f], c))
       ELSE
         UNCHANGED <<pc, outcome, permits, completed>>
    /\ UNCHANGED <<cfgVars, decl, flightVars, byteVars, ops, retVars>>

\* positions inside tokio::time::timeout(timeout, validate_single_file_internal)
Cancellable ==
    {"extract", "resolve", "waiting", "load", "fetching", "storing",
     "await_parse", "await_validate"}

\* mutant of Timeout: the cancelled leader's waiter is completed with an
\* error, which its waiters then receive
Timeout_fails_waiters(f) ==
    /\ pc[f] \in Cancellable
    /\ TaskReturns(f, FileValidationResult_error("Timeout"))
    /\ waitingOn' = [waitingOn EXCEPT ![f] = 0]
    /\ IF result[f] = "computing" THEN
          /\ result' = [result EXCEPT ![f] = "Cache"]
          /\ inflight' = [inflight EXCEPT ![decl[f]] = 0]
       ELSE
          UNCHANGED <<result, inflight>>
    /\ UNCHANGED <<cfgVars, decl, parsed, got, byteVars, job, ops, retVars>>

\* the per-file deadline fires: the pipeline future is dropped (a leader's
\* waiter guard marks the waiter aborted and removes it; a spawned blocking
\* call is left running) and the file gets the timeout Error outcome
Timeout(f) ==
    /\ pc[f] \in Cancellable
    /\ TaskReturns(f, FileValidationResult_error("Timeout"))
    /\ waitingOn' = [waitingOn EXCEPT ![f] = 0]
    /\ IF result[f] = "computing" THEN
          /\ result' = [result EXCEPT ![f] = "aborted"]
          /\ inflight' = [inflight EXCEPT ![decl[f]] = 0]
       ELSE
          UNCHANGED <<result, inflight>>
    /\ UNCHANGED <<cfgVars, decl, parsed, got, byteVars, job, ops, retVars>>

\* mutant of try_join_all: results of timed-out tasks are not collected
try_join_all_drops_timeouts ==
    /\ ret = "running"
    /\ \A f \in Tasks : pc[f] = "done"
    /\ ret' = "ok"
    /\ file_results' =
          SelectSeq([i \in 1..numFiles |-> [path |-> i] @@ outcome[i]],
                    LAMBDA r : r.detail # "Timeout")
    /\ UNCHANGED <<cfgVars, taskVars, flightVars, byteVars, job, ops>>

\* try_join_all(validation_tasks) and the collection loop
try_join_all ==
    /\ ret = "running"
    /\ \A f \in Tasks : pc[f] = "done"
    /\ ret' = "ok"
    /\ file_results' = [i \in 1..numFiles |-> [path |-> i] @@ outcome[i]]
    /\ UNCHANGED <<cfgVars, taskVars, flightVars, byteVars, job, ops>>

Next ==
    \/ \E f \in Tasks : AcquirePermit(f)
    \/ \E f \in Tasks : extract_schema_urls(f)
    \/ \E f \in Tasks : get_or_load(f)
    \/ \E f \in Tasks : WaiterReads(f)
    \/ \E f \in Tasks : load_schema(f)
    \/ \E f \in Tasks : fetch_returns(f)
    \/ \E f \in Tasks : cache_set(f)
    \/ \E f \in Tasks : ParseStarts(f)
    \/ \E f \in Tasks : ParseReturns(f)
    \/ \E f \in Tasks : ValidateStarts(f)
    \/ \E f \in Tasks : ValidateReturns(f)
    \/ \E f \in Tasks : Timeout(f)
    \/ try_join_all

Spec == Init /\ [][Next]_vars

SpecFailFast == InitFailFast /\ [][Next]_vars

\* the task of file f panics inside its async block: the unwinding drops the
\* permit (and the waiter of a leader), the task produces no outcome, and
\* its JoinHandle resolves to a JoinError
TaskPanics(f) ==
    /\ pc[f] \in Cancellable
    /\ pc' = [pc EXCEPT ![f] = "panicked"]
    /\ permits' = permits + 1
    /\ waitingOn' = [waitingOn EXCEPT ![f] = 0]
    /\ IF result[f] = "computing" THEN
          /\ result' = [result EXCEPT ![f] = "aborted"]
          /\ inflight' = [inflight EXCEPT ![decl[f]] = 0]
       ELSE
          UNCHANGED <<result, inflight>>
    /\ UNCHANGED <<cfgVars, decl, outcome, completed, parsed, got, byteVars, job, ops, retVars>>

\* try_join_all(validation_tasks) meets the JoinError of a panicked task:
\* map_err and `?` return Err(ValidationError::Concurrency) from
\* validate_files_with_progress, and no outcome is returned
try_join_all_fails ==
    /\ ret = "running"
    /\ \E f \in Tasks : pc[f] = "panicked"
    /\ ret' = "err"
    /\ UNCHANGED file_results
    /\ UNCHANGED <<cfgVars, taskVars, flightVars, byteVars, job, ops>>

\* the run with tasks that may panic
NextPanic ==
    \/ Next
    \/ \E f \in Tasks : TaskPanics(f)
    \/ try_join_all_fails

SpecPanic == Init /\ [][NextPanic]_vars

\* ------------------------------------------- the cache component: calls

\* the cache calls are made one after the other, by a process that may be
\* killed in the middle of one
CacheCall(op, k, v) == cache_ret' = [op |-> op, key |-> k, value |-> v, tier |-> "-"]

\* the same, for a SchemaCache call answered by tier t
CacheCallFrom(op, k, v, t) == cache_ret' = [op |-> op, key |-> k, value |-> v, tier |-> t]

\* what a set that stopped after its data write leaves a reader entitled to
Interrupted(p) ==
    IF p.old.tag = "Some"
    THEN [tag |-> "interrupted", entry |-> CachedSchema(p.data, p.metadata), old |-> p.old]
    ELSE Unknown

\* DiskCache::set(key, data, metadata), first step: cacache::write (atomic);
\* on its error the call returns Err with nothing changed
DiskCache_set(k, d, m) ==
    /\ set_pending = NoSet
    /\ \E written \in BOOLEAN :
         IF written THEN
            /\ cacache' = [cacache EXCEPT ![k] = d]
            /\ set_pending' =
                  [key |-> k, data |-> d, metadata |-> m, old |-> DiskCache_get_value(k)]
            /\ history' = [history EXCEPT ![k] = Unknown]
            /\ UNCHANGED cache_ret
         ELSE
            /\ CacheCall("DiskCache::set", k, ReturnsErr)
            /\ UNCHANGED <<cacache, set_pending, history>>
    /\ UNCHANGED <<now, metadata_file, memory_cache, ttl, outsideCache>>

\* DiskCache::set, second step: set_metadata (create_dir_all, fs::write).  It
\* succeeds, or fails having written nothing or a truncated file.
set_metadata_writes ==
    /\ set_pending # NoSet
    /\ LET p == set_pending
           k == p.key
           content == to_string_pretty(p.metadata)
       IN
       /\ set_pending' = NoSet
       /\ \E n \in 0..Len(content), untouched \in BOOLEAN :
            IF n = Len(content) /\ ~untouched THEN
               /\ metadata_file' = [metadata_file EXCEPT ![k] = File(content)]
               /\ history' = [history EXCEPT ![k] =
                     [tag |-> "stored", entry |-> CachedSchema(p.data, p.metadata),
                      old |-> ReturnsNone]]
               /\ CacheCall("DiskCache::set", k, ReturnsOk)
            ELSE
               /\ n < Len(content)
               /\ metadata_file' = [metadata_file EXCEPT ![k] =
                     IF untouched THEN @ ELSE File(SubSeq(content, 1, n))]
               /\ history' = [history EXCEPT ![k] = Interrupted(p)]
               /\ CacheCall("DiskCache::set", k, ReturnsErr)
    /\ UNCHANGED <<now, cacache, memory_cache, ttl>>

\* the second step of a set whose caller is not modelled
set_metadata == set_metadata_writes /\ UNCHANGED outsideCache

\* the set is abandoned between its two steps (its future is dropped, or the
\* process is killed and a new one starts with an empty memory tier)
set_interrupted ==
    /\ set_pending # NoSet
    /\ set_pending' = NoSet
    /\ history' = [history EXCEPT ![set_pending.key] = Interrupted(set_pending)]
    /\ \E killed \in BOOLEAN :
          memory_cache' = IF killed THEN [k \in Keys |-> ReturnsNone] ELSE memory_cache
    /\ cache_ret' = NoCall
    /\ UNCHANGED <<now, cacache, metadata_file, ttl, outsideCache>>

\* mutant of DiskCache_get: the expiry of the metadata is not looked at
DiskCache_get_ignores_expiry(k) ==
    /\ set_pending = NoSet
    /\ LET m == get_metadata(k) IN
         CacheCall("DiskCache::get", k,
            IF m.tag \in {"Err", "None"} THEN m
            ELSE IF cacache[k] = "EntryNotFound" THEN ReturnsNone
            ELSE CachedSchema(cacache[k], m))
    /\ UNCHANGED <<now, cacache, metadata_file, memory_cache, set_pending, ttl, history,
                   outsideCache>>

\* mutant of DiskCache_get: the clean-up branch is taken for every entry
DiskCache_get_forgets(k) ==
    /\ set_pending = NoSet
    /\ CacheCall("DiskCache::get", k, ReturnsNone)
    /\ cacache' = [cacache EXCEPT ![k] = "EntryNotFound"]
    /\ metadata_file' = [metadata_file EXCEPT ![k] = NotFound]
    /\ UNCHANGED <<now, memory_cache, set_pending, ttl, history, outsideCache>>

\* DiskCache::get(key)
DiskCache_get(k) ==
    /\ set_pending = NoSet
    /\ CacheCall("DiskCache::get", k, DiskCache_get_value(k))
    /\ IF DiskCache_get_removes(k) THEN
          /\ cacache' = [cacache EXCEPT ![k] = "EntryNotFound"]
          /\ metadata_file' = [metadata_file EXCEPT ![k] = NotFound]
       ELSE
          UNCHANGED <<cacache, metadata_file>>
    /\ UNCHANGED <<now, memory_cache, set_pending, ttl, history, outsideCache>>

\* DiskCache::remove(key): the data record and the metadata file are deleted
DiskCache_remove(k) ==
    /\ set_pending = NoSet
    /\ cacache' = [cacache EXCEPT ![k] = "EntryNotFound"]
    /\ metadata_file' = [metadata_file EXCEPT ![k] = NotFound]
    /\ history' = [history EXCEPT ![k] =
          [tag |-> "removed", entry |-> ReturnsNone, old |-> ReturnsNone]]
    /\ CacheCall("DiskCache::remove", k, ReturnsOk)
    /\ UNCHANGED <<now, memory_cache, set_pending, ttl, outsideCache>>

\* DiskCache::contains(key)
DiskCache_contains(k) ==
    /\ set_pending = NoSet
    /\ LET m == get_metadata(k) IN
         CacheCall("DiskCache::contains", k,
            IF m.tag = "Err" THEN ReturnsErr
            ELSE IF m.tag = "None" THEN ReturnsBool(FALSE)
            ELSE ReturnsBool(~is_expired(m, now)))
    /\ UNCHANGED <<now, cacache, metadata_file, memory_cache, set_pending, ttl, history,
                   outsideCache>>

\* mutant of SchemaCache_get: a disk hit is returned without being placed in
\* the memory tier
SchemaCache_get_no_promotion(u) ==
    /\ set_pending = NoSet
    /\ LET k == generate_key(u) IN
         IF memory_cache[k].tag = "Some" THEN
            /\ CacheCallFrom("SchemaCache::get", k, memory_cache[k], "memory")
            /\ UNCHANGED <<cacache, metadata_file, memory_cache>>
         ELSE
            /\ CacheCallFrom("SchemaCache::get", k, DiskCache_get_value(k), "disk")
            /\ IF DiskCache_get_removes(k) THEN
                  /\ cacache' = [cacache EXCEPT ![k] = "EntryNotFound"]
                  /\ metadata_file' = [metadata_file EXCEPT ![k] = NotFound]
               ELSE
                  UNCHANGED <<cacache, metadata_file>>
            /\ UNCHANGED memory_cache
    /\ UNCHANGED <<now, set_pending, ttl, history, outsideCache>>

\* SchemaCache::get(url): the memory tier, then DiskCache::get, whose hit is
\* placed in the memory tier
SchemaCache_get(u) ==
    /\ set_pending = NoSet
    /\ LET k == generate_key(u) IN
         IF memory_cache[k].tag = "Some" THEN
            /\ CacheCallFrom("SchemaCache::get", k, memory_cache[k], "memory")
            /\ UNCHANGED <<cacache, metadata_file, memory_cache>>
         ELSE
            /\ CacheCallFrom("SchemaCache::get", k, DiskCache_get_value(k), "disk")
            /\ IF DiskCache_get_removes(k) THEN
                  /\ cacache' = [cacache EXCEPT ![k] = "EntryNotFound"]
                  /\ metadata_file' = [metadata_file EXCEPT ![k] = NotFound]
               ELSE
                  UNCHANGED <<cacache, metadata_file>>
            /\ memory_cache' =
                  IF DiskCache_get_value(k).tag = "Some"
                  THEN [memory_cache EXCEPT ![k] = DiskCache_get_value(k)]
                  ELSE memory_cache
    /\ UNCHANGED <<now, set_pending, ttl, history, outsideCache>>

\* SchemaCache::set(url, data, ..): CacheMetadata::new (expires_at = now + ttl),
\* the memory tier is set, then DiskCache::set begins
SchemaCache_set(u, d) ==
    /\ set_pending = NoSet
    /\ LET k == generate_key(u)
           m == [url |-> u, expires_at |-> now + ttl]
       IN
       /\ memory_cache' = [memory_cache EXCEPT ![k] = CachedSchema(d, m)]
       /\ \E written \in BOOLEAN :
            IF written THEN
               /\ cacache' = [cacache EXCEPT ![k] = d]
               /\ set_pending' =
                     [key |-> k, data |-> d, metadata |-> m, old |-> DiskCache_get_value(k)]
               /\ history' = [history EXCEPT ![k] = Unknown]
               /\ UNCHANGED cache_ret
            ELSE
               /\ CacheCall("SchemaCache::set", k, ReturnsErr)
               /\ UNCHANGED <<cacache, set_pending, history>>
    /\ UNCHANGED <<now, metadata_file, ttl, outsideCache>>

\* moka drops a memory entry (time_to_live elapsed, or evicted)
MemoryCache_expires(k) ==
    /\ memory_cache[k].tag = "Some"
    /\ memory_cache' = [memory_cache EXCEPT ![k] = ReturnsNone]
    /\ UNCHANGED <<now, cacache, metadata_file, set_pending, ttl, cache_ret, history,
                   outsideCache>>

\* time passes; the value returned before is no longer that of a call just made
Tick ==
    /\ now < MaxNow
    /\ now' = now + 1
    /\ cache_ret' = NoCall
    /\ UNCHANGED <<cacache, metadata_file, memory_cache, set_pending, ttl, history,
                   outsideCache>>

\* a process with no validation run in it and an empty cache directory
InitDisk == PipelineIdle /\ CacheIdle /\ LoaderIdle /\ HttpIdle /\ DiscoveryIdle /\ SourceIdle /\ ValidateIdle /\ OnceIdle /\ SchemaIdle /\ ExtractIdle /\ ProgressIdle /\ ContentIdle /\ BackoffIdle /\ OriginIdle

\* calls on the DiskCache alone
NextDisk ==
    \/ \E k \in Keys, d \in Bytes, m \in CacheMetadata : DiskCache_set(k, d, m)
    \/ set_metadata
    \/ set_interrupted
    \/ \E k \in Keys : DiskCache_get(k)
    \/ \E k \in Keys : DiskCache_remove(k)
    \/ \E k \in Keys : DiskCache_contains(k)
    \/ Tick

SpecDisk == InitDisk /\ [][NextDisk]_vars

\* the same, for every ttl of the configuration
InitCache == PipelineIdle /\ CacheInit /\ ttl \in 1..MaxNow /\ LoaderIdle /\ HttpIdle /\ DiscoveryIdle /\ SourceIdle /\ ValidateIdle /\ OnceIdle /\ SchemaIdle /\ ExtractIdle /\ ProgressIdle /\ ContentIdle /\ BackoffIdle /\ OriginIdle

\* calls on the two-tier SchemaCache
NextCache ==
    \/ \E u \in CacheUrls : SchemaCache_get(u)
    \/ \E u \in CacheUrls, d \in Bytes : SchemaCache_set(u, d)
    \/ set_metadata
    \/ set_interrupted
    \/ \E k \in Keys : MemoryCache_expires(k)
    \/ Tick

SpecCache == InitCache /\ [][NextCache]_vars

\* ------------------------------------------ the loader over two runs

\* the file of a run ends with outcome o
RunEnds(o) ==
    /\ run_outcome' = [run_outcome EXCEPT ![run] = o]
    /\ load_pc' = "done"

\* mutant of load_remote_schema: the cache is not looked at before the download
load_remote_schema_skips_cache(u) ==
    /\ load_pc = "idle" /\ run_outcome[run] = NoOutcome
    /\ load_pc' = "download"
    /\ UNCHANGED <<memory_cache, cacache, metadata_file, loaded, run_outcome>>
    /\ UNCHANGED <<now, set_pending, ttl, cache_ret, history>>
    /\ UNCHANGED <<run, server, engine, downloads, persisted, outsideLoader>>

\* load_remote_schema(url), "check cache first": SchemaCache::get
load_remote_schema(u) ==
    /\ load_pc = "idle" /\ run_outcome[run] = NoOutcome
    /\ LET k == generate_key(u)
           v == IF memory_cache[k].tag = "Some" THEN memory_cache[k]
                ELSE DiskCache_get_value(k)
       IN
       /\ IF memory_cache[k].tag # "Some" /\ DiskCache_get_removes(k) THEN
             /\ cacache' = [cacache EXCEPT ![k] = "EntryNotFound"]
             /\ metadata_file' = [metadata_file EXCEPT ![k] = NotFound]
          ELSE
             UNCHANGED <<cacache, metadata_file>>
       /\ memory_cache' = IF v.tag = "Some" THEN [memory_cache EXCEPT ![k] = v]
                          ELSE memory_cache
       /\ CASE v.tag = "Some" ->
                 /\ loaded' = [loaded EXCEPT ![run] = v.data]
                 /\ load_pc' = "loaded"
                 /\ UNCHANGED run_outcome
            [] v.tag = "Err" ->
                 /\ RunEnds(FileValidationResult_error("Cache"))
                 /\ UNCHANGED loaded
            [] OTHER ->
                 /\ load_pc' = "download"
                 /\ UNCHANGED <<loaded, run_outcome>>
    /\ UNCHANGED <<now, set_pending, ttl, cache_ret, history>>
    /\ UNCHANGED <<run, server, engine, downloads, persisted, outsideLoader>>

\* http_client.download_schema(url) and validate_schema_content
download_schema(u) ==
    /\ load_pc = "download"
    /\ downloads' = [downloads EXCEPT ![run] = @ + 1]
    /\ \E r \in {"ok", "failed", "not_a_schema"} :
         CASE r = "ok" ->
                /\ loaded' = [loaded EXCEPT ![run] = server]
                /\ load_pc' = "store"
                /\ UNCHANGED run_outcome
           [] r = "failed" ->
                /\ RunEnds(FileValidationResult_error("SchemaNotFound"))
                /\ UNCHANGED loaded
           [] OTHER ->
                /\ RunEnds(FileValidationResult_error("SchemaParsing"))
                /\ UNCHANGED loaded
    /\ UNCHANGED <<run, server, engine, persisted, cacheVars, outsideLoader>>

\* self.cache.set(url, schema_data, None, None): the memory tier, then the
\* first step of DiskCache::set
load_remote_schema_set(u) ==
    /\ load_pc = "store"
    /\ LET k == generate_key(u)
           d == loaded[run]
           m == [url |-> u, expires_at |-> now + ttl]
       IN
       /\ memory_cache' = [memory_cache EXCEPT ![k] = CachedSchema(d, m)]
       /\ \E written \in BOOLEAN :
            IF written THEN
               /\ cacache' = [cacache EXCEPT ![k] = d]
               /\ set_pending' =
                     [key |-> k, data |-> d, metadata |-> m, old |-> DiskCache_get_value(k)]
               /\ history' = [history EXCEPT ![k] = Unknown]
               /\ load_pc' = "storing"
               /\ UNCHANGED <<cache_ret, run_outcome>>
            ELSE
               /\ CacheCall("SchemaCache::set", k, ReturnsErr)
               /\ RunEnds(FileValidationResult_error("Cache"))
               /\ UNCHANGED <<cacache, set_pending, history>>
    /\ UNCHANGED <<now, metadata_file, ttl>>
    /\ UNCHANGED <<run, server, engine, loaded, downloads, persisted, outsideLoader>>

\* the second step of the set and its return: its error is returned,
\* otherwise self.cache.get(url) gives the entry just placed in the memory tier
load_remote_schema_returns(u) ==
    /\ load_pc = "storing"
    /\ set_metadata_writes
    /\ IF cache_ret'.value = ReturnsOk THEN
          /\ loaded' = [loaded EXCEPT ![run] = memory_cache[generate_key(u)].data]
          /\ load_pc' = "loaded"
          /\ UNCHANGED run_outcome
       ELSE
          /\ RunEnds(FileValidationResult_error("Cache"))
          /\ UNCHANGED loaded
    /\ UNCHANGED <<run, server, engine, downloads, persisted, outsideLoader>>

\* parse_schema_from_memory on the loaded bytes, then validate_file
validate_single_file_internal(u) ==
    /\ load_pc = "loaded"
    /\ RunEnds(IF engine[loaded[run]].parses
               THEN from_code(u, engine[loaded[run]].code)
               ELSE FileValidationResult_error("SchemaParseFailed"))
    /\ UNCHANGED <<run, server, engine, loaded, downloads, persisted, cacheVars, outsideLoader>>

\* run A has ended; run B is a fresh process on the same cache directory
NewProcess ==
    /\ run = "A" /\ load_pc = "done"
    /\ run' = "B"
    /\ load_pc' = "idle"
    /\ memory_cache' = [k \in Keys |-> ReturnsNone]
    /\ cache_ret' = NoCall
    /\ persisted' = LET h == history[generate_key("u1")] IN
                    IF h.tag = "stored" THEN h.entry ELSE ReturnsNone
    /\ UNCHANGED <<now, cacache, metadata_file, set_pending, ttl, history>>
    /\ UNCHANGED <<server, engine, loaded, downloads, run_outcome, outsideLoader>>

\* the server starts to serve another text for the url
ServerChanges ==
    /\ \E b \in Bytes \ {server} : server' = b
    /\ UNCHANGED <<run, engine, load_pc, loaded, downloads, run_outcome, persisted,
                   cacheVars, outsideLoader>>

\* every server text, engine verdict and ttl
InitLoader == PipelineIdle /\ CacheInit /\ ttl \in 1..MaxNow /\ LoaderInit /\ HttpIdle /\ DiscoveryIdle /\ SourceIdle /\ ValidateIdle /\ OnceIdle /\ SchemaIdle /\ ExtractIdle /\ ProgressIdle /\ ContentIdle /\ BackoffIdle /\ OriginIdle

NextLoader ==
    \/ \E u \in CacheUrls : load_remote_schema(u)
    \/ \E u \in CacheUrls : download_schema(u)
    \/ \E u \in CacheUrls : load_remote_schema_set(u)
    \/ \E u \in CacheUrls : load_remote_schema_returns(u)
    \/ \E u \in CacheUrls : validate_single_file_internal(u)
    \/ NewProcess
    \/ ServerChanges
    \/ Tick

SpecLoader == InitLoader /\ [][NextLoader]_vars

\* ------------------------------------------------ the HTTP client: steps

\* the fetch returns v
HttpReturns(v) ==
    /\ http_ret' = v
    /\ http_pc' = "done"

\* the loop goes on: wait_before_retry(current_attempt), current_attempt += 1
HttpRetries ==
    /\ waits' = Append(waits, current_attempt)
    /\ current_attempt' = current_attempt + 1
    /\ UNCHANGED <<http_pc, http_ret>>

\* mutant of get_response_with_retry: a client error is retried like a
\* server error
get_response_with_retry_4xx_retried ==
    /\ http_pc = "request"
    /\ \E r \in Responses :
         /\ responses' = Append(responses, r)
         /\ IF r.kind = "status" THEN
               IF is_success(r.status) THEN
                  /\ http_pc' = "body"
                  /\ UNCHANGED <<current_attempt, waits, http_ret>>
               ELSE IF (is_server_error(r.status) \/ is_client_error(r.status))
                         /\ current_attempt < retry_attempts THEN
                  HttpRetries
               ELSE
                  /\ HttpReturns(HttpError(r))
                  /\ UNCHANGED <<current_attempt, waits>>
            ELSE
               IF current_attempt < retry_attempts /\ is_retryable_error(r) THEN
                  HttpRetries
               ELSE
                  /\ HttpReturns(HttpError(r))
                  /\ UNCHANGED <<current_attempt, waits>>
    /\ UNCHANGED <<retry_attempts, outsideHttp>>

\* one iteration of the loop of get_response_with_retry: make_request and the
\* match on its result
get_response_with_retry ==
    /\ http_pc = "request"
    /\ \E r \in Responses :
         /\ responses' = Append(responses, r)
         /\ IF r.kind = "status" THEN
               IF is_success(r.status) THEN
                  /\ http_pc' = "body"
                  /\ UNCHANGED <<current_attempt, waits, http_ret>>
               ELSE IF is_server_error(r.status) /\ current_attempt < retry_attempts THEN
                  HttpRetries
               ELSE
                  /\ HttpReturns(HttpError(r))
                  /\ UNCHANGED <<current_attempt, waits>>
            ELSE
               IF current_attempt < retry_attempts /\ is_retryable_error(r) THEN
                  HttpRetries
               ELSE
                  /\ HttpReturns(HttpError(r))
                  /\ UNCHANGED <<current_attempt, waits>>
    /\ UNCHANGED <<retry_attempts, outsideHttp>>

\* download_with_retry after the response: response.bytes().await, whose
\* error (connection lost or timed out while the body arrives) is returned
download_with_retry ==
    /\ http_pc = "body"
    /\ \E read \in BOOLEAN :
          HttpReturns(IF read THEN HttpOk ELSE [tag |-> "Http:body", status |-> 0])
    /\ UNCHANGED <<retry_attempts, current_attempt, responses, waits, outsideHttp>>

InitHttp == PipelineIdle /\ CacheIdle /\ LoaderIdle /\ HttpInit /\ DiscoveryIdle /\ SourceIdle /\ ValidateIdle /\ OnceIdle /\ SchemaIdle /\ ExtractIdle /\ ProgressIdle /\ ContentIdle /\ BackoffIdle /\ OriginIdle

NextHttp ==
    \/ get_response_with_retry
    \/ download_with_retry

SpecHttp == InitHttp /\ [][NextHttp]_vars

\* ---------------------------------------------- file discovery: steps

\* mutant of discover_files_recursive: a directory at the depth limit is
\* still read
discover_files_recursive_reads_at_limit(path, depth, callers) ==
    IF max_depth # -1 /\ depth > max_depth THEN
        UNCHANGED <<files, descended>> /\ frames' = callers
    ELSE IF ~is_dir(path) THEN
        /\ files' = IF should_process(path) THEN Append(files, path) ELSE files
        /\ frames' = callers
        /\ UNCHANGED descended
    ELSE
        /\ frames' = Append(callers,
              [dir |-> path, todo |-> Entries(path), depth |-> depth + 1])
        /\ descended' = descended \cup {path}
        /\ UNCHANGED files

\* discover_files_recursive(path, depth, files), up to its read_dir loop,
\* called from the loops in callers
discover_files_recursive(path, depth, callers) ==
    IF max_depth # -1 /\ depth > max_depth THEN
        UNCHANGED <<files, descended>> /\ frames' = callers
    ELSE IF ~is_dir(path) THEN
        /\ files' = IF should_process(path) THEN Append(files, path) ELSE files
        /\ frames' = callers
        /\ UNCHANGED descended
    ELSE IF max_depth # -1 /\ depth >= max_depth THEN
        UNCHANGED <<files, descended>> /\ frames' = callers
    ELSE
        /\ frames' = Append(callers,
              [dir |-> path, todo |-> Entries(path), depth |-> depth + 1])
        /\ descended' = descended \cup {path}
        /\ UNCHANGED files

\* discover_files(root), up to its loop: fs::read_dir(root) opens a
\* directory and fails on anything else, and the error is returned
discover_files ==
    /\ walk_pc = "start"
    /\ IF root_kind = "dir"
       THEN /\ frames' = <<[dir |-> <<>>, todo |-> Entries(<<>>), depth |-> 0]>>
            /\ walk_pc' = "walking"
       ELSE /\ frames' = frames
            /\ walk_pc' = "failed"
    /\ UNCHANGED <<extensions, include_patterns, exclude_patterns, max_depth,
                   follow_symlinks, files, descended, root_kind>>
    /\ UNCHANGED outsideDiscovery

\* one turn of a read_dir loop (of discover_files at the root, of
\* discover_files_recursive below it): next_entry yields an entry, in any
\* order; a symlink is skipped unless symlinks are followed
next_entry ==
    /\ walk_pc = "walking"
    /\ frames # <<>>
    /\ LET top == frames[Len(frames)] IN
       \E n \in top.todo :
          LET entry_path == Append(top.dir, n)
              callers == [frames EXCEPT ![Len(frames)].todo = top.todo \ {n}]
          IN IF is_symlink(entry_path) /\ ~follow_symlinks
             THEN frames' = callers /\ UNCHANGED <<files, descended>>
             ELSE discover_files_recursive(entry_path, top.depth, callers)
    /\ UNCHANGED <<extensions, include_patterns, exclude_patterns, max_depth,
                   follow_symlinks, walk_pc, root_kind>>
    /\ UNCHANGED outsideDiscovery

\* next_entry yields None: the loop ends, and with the loop of
\* discover_files the walk returns Ok(files)
read_dir_ends ==
    /\ walk_pc = "walking"
    /\ frames # <<>>
    /\ frames[Len(frames)].todo = {}
    /\ frames' = SubSeq(frames, 1, Len(frames) - 1)
    /\ walk_pc' = IF Len(frames) = 1 THEN "done" ELSE "walking"
    /\ UNCHANGED <<extensions, include_patterns, exclude_patterns, max_depth,
                   follow_symlinks, files, descended, root_kind>>
    /\ UNCHANGED outsideDiscovery

InitDiscovery == PipelineIdle /\ CacheIdle /\ LoaderIdle /\ HttpIdle /\ DiscoveryInit /\ SourceIdle /\ ValidateIdle /\ OnceIdle /\ SchemaIdle /\ ExtractIdle /\ ProgressIdle /\ ContentIdle /\ BackoffIdle /\ OriginIdle

NextDiscovery == discover_files \/ next_entry \/ read_dir_ends

SpecDiscovery == InitDiscovery /\ [][NextDiscovery]_vars

\* ------------------------------------------------------------ measures

\* blocking workers currently inside parse_schema_from_memory for url u
ParsesInProgress(u) == {f \in Files : job[f] = "parse" /\ decl[f] = u}

\* tasks whose pipeline invoked operation o for url u
Performed(o, u) == {f \in Files : o \in ops[f] /\ decl[f] = u}

\* leaders running the byte-loading part of their init future for url u
LoadsInProgress(u) ==
    {f \in Files : pc[f] \in {"load", "fetching", "storing"} /\ decl[f] = u}

\* the step of file f in which its per-file deadline fires
TimesOut(f) == outcome[f] = NoOutcome /\ outcome'[f].detail = "Timeout"

LoadOps == {"download", "file_read", "disk_read", "disk_write", "parse"}

\* ------------------------------------------------------------- claims

\* C1: for every schema url at most one parse_schema_from_memory call is in
\* progress in every reachable state (timeouts included), and a url whose
\* build succeeded was parsed exactly once.
C1_SingleFlightCompilation ==
    \A u \in Urls :
        /\ Cardinality(ParsesInProgress(u)) <= 1
        /\ parsed[u] # 0 => Cardinality(Performed("parse", u)) = 1

\* C2: in every reachable state at most one parse_schema_from_memory call is
\* in progress in the whole process, for the same or for different urls.
C2_ParserExclusivity ==
    Cardinality({f \in Files : job[f] = "parse"}) <= 1

\* C3 (as stated): with cold caches, concurrent resolutions of a remote url
\* call download_schema exactly once, and never run two loads at once.
C3_ExactlyOneDownload ==
    \A u \in RemoteUrls :
        /\ Cardinality(LoadsInProgress(u)) <= 1
        /\ disk0[u] = "absent" => Cardinality(Performed("download", u)) <= 1
        /\ (disk0[u] = "absent" /\ parsed[u] # 0)
              => Cardinality(Performed("download", u)) = 1

\* C3 (amended): resolutions of a remote url never run two byte loads
\* (disk-cache read, download) at the same time; no download is in progress
\* once the bytes are in the memory tier; download_schema is called once,
\* plus once for every earlier leader that downloaded and whose build failed
\* or was cancelled by its timeout; with cold caches a compiled url was
\* downloaded at least once.
C3_SingleFlightFetching ==
    \A u \in RemoteUrls :
        /\ Cardinality(LoadsInProgress(u)) <= 1
        /\ \A f \in Files : (pc[f] = "fetching" /\ decl[f] = u) => ~mem[u]
        /\ Cardinality(Performed("download", u)) <=
              1 + Cardinality({l \in Performed("download", u) :
                      result[l] \in {"SchemaNotFound", "SchemaParsing", "Cache", "aborted"}})
        /\ (disk0[u] = "absent" /\ parsed[u] # 0)
              => Cardinality(Performed("download", u)) >= 1

\* C3 witness: a waiter is about to receive the schema of a remote url that
\* was cold on disk and was downloaded exactly once, by the leader.
C3_Witness ==
    \E f \in Files :
        /\ pc[f] = "waiting"
        /\ result[waitingOn[f]] = "ok"
        /\ decl[f] \in RemoteUrls
        /\ disk0[decl[f]] = "absent"
        /\ Performed("download", decl[f]) = {waitingOn[f]}

C4_Inv ==
    /\ \A l \in Files : result[l] \in BuildErrors =>
          /\ parsed[decl[l]] # l
          /\ inflight[decl[l]] # l
    /\ \A u \in Urls : parsed[u] # 0 => result[parsed[u]] = "ok"
    /\ \A u \in Urls : inflight[u] # 0 => result[inflight[u]] = "computing"

C4_Step ==
    \A f \in Files :
        \* a waiter of a failed build ends with that failure (or its own timeout)
        /\ (pc[f] = "waiting" /\ result[waitingOn[f]] \in BuildErrors /\ pc'[f] # "waiting")
              => /\ outcome'[f].status = "Error"
                 /\ outcome'[f].detail \in {result[waitingOn[f]], "Timeout"}
        \* a caller starts to wait only on a build that is still running
        /\ (waitingOn'[f] # waitingOn[f] /\ waitingOn'[f] # 0)
              => result'[waitingOn'[f]] = "computing"
        \* get_or_load never answers a new caller with a stored failure
        /\ (pc[f] = "resolve" /\ pc'[f] = "done") => outcome'[f].detail = "Timeout"
        \* after a failed build, with no build running, the next caller builds
        /\ (pc[f] = "resolve" /\ pc'[f] \notin {"resolve", "done"}
              /\ parsed[decl[f]] = 0 /\ inflight[decl[f]] = 0)
              => (pc'[f] = "load" /\ result'[f] = "computing")

\* C4: a failed build is delivered to every caller waiting on it, installs
\* no compiled entry, and is not remembered: the next get_or_load for the
\* url runs the builder again.
C4_FailureNotCached == []C4_Inv /\ [][C4_Step]_vars

\* C4 witness: a build failed and a caller that never ran a builder of its
\* own (it waited on that build) ended with that same failure; no entry and
\* no waiter is left for the url.
C4_Witness ==
    \E l, w \in Files :
        /\ l # w
        /\ decl[l] = decl[w]
        /\ result[l] \in BuildErrors
        /\ result[w] = "none" /\ outcome[w] = FileValidationResult_error(result[l])
        /\ parsed[decl[l]] = 0 /\ inflight[decl[l]] = 0

C5_Inv ==
    /\ \A u \in Urls : parsed[u] # 0 => (result[parsed[u]] = "ok" /\ decl[parsed[u]] = u)
    /\ \A l \in Files : result[l] = "ok" => (parsed[decl[l]] = l /\ got[l] = l)
    /\ \A f \in Files : got[f] # 0 => got[f] = parsed[decl[f]]

C5_Step ==
    \A f \in Files :
        (pc[f] = "waiting" /\ result[waitingOn[f]] = "ok" /\ pc'[f] # "waiting" /\ ~TimesOut(f))
           => (got'[f] = waitingOn[f] /\ outcome'[f] = NoOutcome)

\* C5: a successful build is inserted into the parsed-schema cache, and the
\* leader and every waiter of that build receive that one compiled schema,
\* never another one and never an error.
C5_SuccessShared == []C5_Inv /\ [][C5_Step]_vars

\* C5 witness: the leader's schema is in the cache and held by the leader
\* while a waiter of that build is about to read it.
C5_Witness ==
    \E f \in Files :
        /\ pc[f] = "waiting" /\ result[waitingOn[f]] = "ok"
        /\ got[waitingOn[f]] = waitingOn[f]
        /\ parsed[decl[f]] = waitingOn[f]

C6_Step ==
    \A f \in Files :
        (pc[f] = "resolve" /\ parsed[decl[f]] # 0 /\ pc'[f] # "resolve" /\ ~TimesOut(f))
           => /\ got'[f] = parsed[decl[f]]
              /\ pc'[f] = "await_validate"
              /\ result'[f] = "none"
              /\ ops' = ops /\ mem' = mem /\ disk' = disk

C6_Inv ==
    \A f \in Files : result[f] = "none" => ops[f] \cap LoadOps = {}

\* C6: when the compiled entry of a url is present, a resolution of the url
\* returns that compiled schema and performs no download, no disk-cache read
\* or write, no schema file read and no parse call.
C6_IdempotentCaching == []C6_Inv /\ [][C6_Step]_vars

\* C6 witness: with one permit (no overlap between tasks) a second file holds
\* the compiled schema built by an earlier file and has loaded nothing.
C6_Witness ==
    /\ maxConcurrent = 1
    /\ \E f \in Files :
          /\ got[f] \notin {0, f}
          /\ pc[got[f]] = "done"
          /\ ops[f] \cap LoadOps = {}

\* C7: the run returns one outcome per file, in a status that is counted,
\* and total_files = valid + invalid + error + skipped = number of files.
C7_OutcomeCoverage ==
    ret = "ok" =>
        LET a == aggregate(file_results) IN
        /\ Len(file_results) = numFiles
        /\ \A i \in 1..numFiles : file_results[i].path = i
        /\ a.total_files = numFiles
        /\ a.total_files = a.valid_files + a.invalid_files + a.error_files + a.skipped_files

\* C7 witness: a returned run of at least two files, one timed out and one
\* invalid.
C7_Witness ==
    /\ ret = "ok"
    /\ numFiles >= 2
    /\ \E i, j \in 1..numFiles :
          /\ file_results[i].detail = "Timeout"
          /\ file_results[j].status = "Invalid"

C8_Inv ==
    \A f \in Files :
        /\ result[f] \in BuildErrors => outcome[f] = FileValidationResult_error(result[f])
        /\ result[f] = "aborted" => outcome[f] = FileValidationResult_error("Timeout")

C8_Step ==
    \A f \in Files :
        /\ TimesOut(f) =>
              /\ outcome'[f].status = "Error"
              /\ parsed' = parsed /\ mem' = mem /\ disk' = disk
              /\ \A g \in Files \ {f} :
                    pc'[g] = pc[g] /\ outcome'[g] = outcome[g] /\ got'[g] = got[g]
        /\ (pc[f] = "waiting" /\ result[waitingOn[f]] = "aborted" /\ outcome'[f] # outcome[f])
              => TimesOut(f)
        /\ (pc[f] = "waiting" /\ result[waitingOn[f]] = "aborted" /\ ~TimesOut(f)
              /\ (pc'[f] # pc[f] \/ waitingOn'[f] # waitingOn[f]))
              => \/ pc'[f] = "load" /\ result'[f] = "computing"
                 \/ pc'[f] = "waiting" /\ result[waitingOn'[f]] = "computing"
                 \/ pc'[f] = "await_validate" /\ got'[f] = parsed[decl[f]]

\* C8: a file whose deadline fires gets an Error outcome and the step
\* changes no other file's position, outcome or schema and no cache; a
\* timed-out leader publishes no error, and a caller waiting on it gets no
\* outcome from it but resolves the url again (leads, waits on the next
\* leader, or takes the entry compiled meanwhile).
C8_TimeoutFidelity == []C8_Inv /\ [][C8_Step]_vars

\* C8 witness: a leader timed out while another file waits on its build.
C8_Witness ==
    \E g \in Files :
        /\ pc[g] = "waiting"
        /\ result[waitingOn[g]] = "aborted"
        /\ outcome[waitingOn[g]] = FileValidationResult_error("Timeout")

C9_Step ==
    (failFast /\ \E g \in Files : outcome[g].status \in {"Invalid", "Error", "Skipped"})
        => \A f \in Files : pc[f] = "spawned" => pc'[f] = "spawned"

\* C9: with fail_fast set, once a non-Valid outcome has completed no file
\* that had not started its pipeline starts it.
C9_FailFast == [][C9_Step]_vars

\* C10: a validate_file call handed to the blocking pool can always begin,
\* whatever other validate_file or parse calls are in progress.
C10_ValidatorParallelism ==
    \A f \in Files : job[f] = "validate_q" => ENABLED ValidateStarts(f)

\* C10 witness: max_concurrent_validations = K >= 2 validate_file calls on
\* one shared compiled schema are in progress at the same time.
C10_Witness ==
    LET running == {f \in Files : job[f] = "validate" /\ pc[f] = "await_validate"} IN
    /\ maxConcurrent >= 2
    /\ Cardinality(running) = maxConcurrent
    /\ \A f, g \in running : got[f] = got[g]

\* tasks that hold a semaphore permit and have not produced their outcome
PermitHolders == {f \in Files : pc[f] \in Cancellable}

\* C11: at most max_concurrent_validations tasks hold a permit and have no
\* outcome yet; a task without a permit has extracted, resolved and
\* validated nothing; every task that produced its outcome (success, error
\* or timeout) has given its permit back.
C11_BoundedConcurrency ==
    /\ Cardinality(PermitHolders) <= maxConcurrent
    /\ permits >= 0
    /\ permits + Cardinality(PermitHolders) = maxConcurrent
    /\ \A f \in Files : pc[f] \in {"spawned", "absent"} =>
          /\ decl[f] = "-" /\ ops[f] = {} /\ job[f] = "none"
          /\ got[f] = 0 /\ result[f] = "none" /\ waitingOn[f] = 0
    /\ (\A f \in Tasks : pc[f] = "done") => permits = maxConcurrent

\* C11 witness: with one permit, a task that timed out gave the permit back
\* and the next task holds it while the semaphore is exhausted.
C11_Witness ==
    /\ maxConcurrent = 1 /\ permits = 0
    /\ \E f, g \in Files :
          /\ outcome[f].detail = "Timeout"
          /\ pc[g] = "await_validate"

C12_Inv ==
    (cache_ret.op = "DiskCache::get" /\ cache_ret.value.tag = "Some")
        => ~(cache_ret.value.expires_at < now)

C12_Step ==
    \A k \in Keys :
        LET m == get_metadata(k) IN
        (m.tag = "Some" /\ m.expires_at < now) =>
            /\ DiskCache_get(k) => cache_ret'.value = ReturnsNone
            /\ DiskCache_contains(k) => cache_ret'.value = ReturnsBool(FALSE)

\* C12: DiskCache::get returns no entry whose metadata expires_at is earlier
\* than the current time: for such an entry get returns None and contains
\* returns false.
C12_TtlHonesty == []C12_Inv /\ [][C12_Step]_vars

\* C12 witness: an entry that was stored with success has expired since, and
\* the get just made on its key returned None.
C12_Witness ==
    \E k \in Keys :
        /\ history[k].tag = "stored"
        /\ history[k].entry.expires_at < now
        /\ cache_ret = [op |-> "DiskCache::get", key |-> k, value |-> ReturnsNone, tier |-> "-"]

C14_CrashSafePut ==
    \A k \in Keys :
        (/\ cache_ret.op = "DiskCache::get" /\ cache_ret.key = k
         /\ history[k].tag = "interrupted"
         /\ ~is_expired(history[k].old, now))
            => cache_ret.value \in {history[k].old, history[k].entry}

C15_Step ==
    \A u \in CacheUrls :
        LET k == generate_key(u) IN
        SchemaCache_get(u) =>
            IF memory_cache[k].tag = "Some" THEN
               /\ cache_ret'.value = memory_cache[k]
               /\ cacache' = cacache /\ metadata_file' = metadata_file
               /\ memory_cache' = memory_cache
            ELSE
               /\ cache_ret'.value = DiskCache_get_value(k)
               /\ DiskCache_get_value(k).tag = "Some" =>
                     /\ memory_cache'[k] = cache_ret'.value
                     /\ cache_ret'.value.data = cacache'[k]
                     /\ cache_ret'.value.data \in Bytes

\* C15: SchemaCache::get answers from the memory tier when it holds the key
\* and leaves the disk tier alone; on a memory miss it answers from the disk
\* tier, and a disk hit is placed in the memory tier, so that after the call
\* the memory tier holds the key with the bytes stored on disk.
C15_TwoTierRead == [][C15_Step]_vars

\* C15 witness: a get was answered by the disk tier with an entry, and the
\* memory tier now holds that entry, whose bytes are those on disk.
C15_Witness ==
    \E k \in Keys :
        /\ cache_ret.op = "SchemaCache::get" /\ cache_ret.key = k
        /\ cache_ret.tier = "disk" /\ cache_ret.value.tag = "Some"
        /\ memory_cache[k] = cache_ret.value
        /\ cache_ret.value.data = cacache[k]

\* C16: when run A downloaded the url and stored it with success, a later
\* run B with an empty memory tier and the same cache directory, while that
\* entry is not expired, starts no download of the url, loads the bytes run A
\* loaded, and gives the file the outcome run A gave it.
C16_DiskPersistence ==
    (/\ run = "B"
     /\ downloads["A"] = 1 /\ persisted.tag = "Some"
     /\ ~is_expired(persisted, now))
        => /\ downloads["B"] = 0
           /\ load_pc \notin {"download", "store", "storing"}
           /\ load_pc \in {"loaded", "done"} => loaded["B"] = loaded["A"]
           /\ load_pc = "done" => run_outcome["B"] = run_outcome["A"]

\* C16 witness: run B ended with the Invalid outcome of run A without a
\* download, at a later instant, while the server serves another text.
C16_Witness ==
    /\ run = "B" /\ load_pc = "done"
    /\ downloads["A"] = 1 /\ downloads["B"] = 0
    /\ persisted.tag = "Some" /\ now > 0 /\ ~is_expired(persisted, now)
    /\ run_outcome["A"].status = "Invalid"
    /\ run_outcome["B"] = run_outcome["A"]
    /\ server # loaded["A"]

\* C17 (as stated): a fetch that ends with the HttpStatus error of a 4xx
\* response made exactly one request and no backoff wait.
C17_OneRequestOn4xx ==
    (http_ret.tag = "HttpStatus" /\ is_client_error(http_ret.status))
        => (Len(responses) = 1 /\ waits = <<>>)

\* C17 (amended): a 4xx response ends the fetch at once, whatever
\* retry_attempts is: no request and no backoff wait follows it (the waits
\* made are those after the earlier, retried responses) and the fetch returns
\* the HttpStatus error with that status; when the 4xx answers the first
\* request, one request and no wait were made.
C17_ClientErrorEndsFetch ==
    \A i \in 1..Len(responses) :
        (responses[i].kind = "status" /\ is_client_error(responses[i].status)) =>
            /\ i = Len(responses)
            /\ http_pc = "done"
            /\ http_ret = [tag |-> "HttpStatus", status |-> responses[i].status]
            /\ Len(waits) = i - 1
            /\ \A j \in 1..(i - 1) :
                  \/ is_retryable_error(responses[j])
                  \/ responses[j].kind = "status" /\ is_server_error(responses[j].status)

\* C17 witness: with the largest retry_attempts, the first request was
\* answered 404 and the fetch has returned HttpStatus 404 without a wait.
C17_Witness ==
    /\ retry_attempts = MaxRetries
    /\ responses = <<Response(404)>>
    /\ waits = <<>>
    /\ http_pc = "done"
    /\ http_ret = [tag |-> "HttpStatus", status |-> 404]

\* C18: a fetch makes at most retry_attempts + 1 requests; every request but
\* the last was answered by a 5xx, a connection error or a timeout; the
\* fetch returns the body on the first 2xx response; a fetch that failed
\* returns the error of its last request.
C18_BoundedRetries ==
    /\ Len(responses) <= retry_attempts + 1
    /\ Len(waits) = current_attempt /\ current_attempt <= retry_attempts
    /\ \A j \in 1..(Len(responses) - 1) :
          \/ is_retryable_error(responses[j])
          \/ responses[j].kind = "status" /\ is_server_error(responses[j].status)
    /\ http_pc = "done" =>
          LET last == responses[Len(responses)] IN
          IF last.kind = "status" /\ is_success(last.status)
          THEN http_ret = HttpOk
          ELSE http_ret = HttpError(last)
\* --------------------------------------------- claims on file discovery

\* the paths the walk has pushed
Returned == {files[i] : i \in 1..Len(files)}

\* a path matches one of the patterns of a list
MatchesAny(patterns, path) ==
    \E i \in 1..Len(patterns) : is_match(patterns[i], path)

\* C19: every path the walk returns has an extension whose lower-cased form
\* is in the allowed list, matches no exclude pattern and, when the include
\* list is not empty, matches an include pattern; so a path that matches an
\* exclude pattern is never returned, whatever the include patterns say
C19_FilterCorrectness ==
    \A p \in Returned :
        /\ extension(p[Len(p)]) # "-"
        /\ to_lowercase(extension(p[Len(p)])) \in extensions
        /\ ~MatchesAny(exclude_patterns, p)
        /\ include_patterns # <<>> => MatchesAny(include_patterns, p)

\* a finished walk that read the directory "ignored", whose file matches an
\* include and an exclude pattern, and returned files of other directories
C19_Witness ==
    /\ walk_pc = "done"
    /\ <<"ignored">> \in descended
    /\ MatchesAny(include_patterns, <<"ignored", "g.xml">>)
    /\ MatchesAny(exclude_patterns, <<"ignored", "g.xml">>)
    /\ <<"ignored", "g.xml">> \notin Returned
    /\ <<"sub", "e.xml">> \in Returned

\* the depth of a path: the number of separators below the root
Depth(path) == Len(path) - 1

\* the regular files and directories of the tree that the walk can meet:
\* nothing behind a symlink unless symlinks are followed
RECURSIVE PathsBelow(_)
PathsBelow(dir) ==
    UNION {LET p == Append(dir, n) IN
           IF is_symlink(p) /\ ~follow_symlinks THEN {}
           ELSE IF is_dir(p) THEN {p} \cup PathsBelow(p)
           ELSE {p} : n \in Entries(dir)}

\* a file the filters accept
Matching(p) ==
    /\ ~is_dir(p)
    /\ extension(p[Len(p)]) # "-"
    /\ to_lowercase(extension(p[Len(p)])) \in extensions
    /\ ~MatchesAny(exclude_patterns, p)
    /\ include_patterns # <<>> => MatchesAny(include_patterns, p)

C21_RootFile ==
    root_kind = "file" =>
        /\ walk_pc # "failed"
        /\ walk_pc = "done" => Returned \subseteq {<<>>}

\* C22: a task whose extraction ends without a schema reference and without
\* an error gets the Skipped outcome, and a Skipped file has no schema
\* reference, was never leader or waiter of a resolution, and no cache
\* lookup, file read, download, parse or validation was made for it
C22_Inv ==
    \A f \in Files : outcome[f].status = "Skipped" =>
        /\ pc[f] = "done"
        /\ decl[f] = "-" /\ ops[f] = {} /\ job[f] = "none"
        /\ got[f] = 0 /\ result[f] = "none" /\ waitingOn[f] = 0
        /\ \A u \in Urls : inflight[u] # f

C22_Step ==
    \A f \in Files :
        /\ (pc[f] = "extract" /\ pc'[f] = "done" /\ outcome'[f].status # "Error")
              => outcome'[f] = FileValidationResult_skipped
        /\ outcome'[f].status = "Skipped" /\ outcome[f].status # "Skipped"
              => pc[f] = "extract"

C22_SkippedDoesNothing == []C22_Inv /\ [][C22_Step]_vars

\* C22 witness: a returned run with a Skipped file next to a file whose
\* schema was loaded, parsed and used
C22_Witness ==
    /\ ret = "ok"
    /\ \E i, j \in 1..numFiles :
          /\ file_results[i].status = "Skipped"
          /\ ops[i] = {}
          /\ file_results[j].status = "Valid"
          /\ {"parse", "validate"} \subseteq ops[j]

\* ------------------------------------------- schema origin classification

\* extract_schema_urls classifies a captured URI
classify ==
    /\ source_type = NoSourceType
    /\ source_type' = determine_source_type(url, xml_file_path)
    /\ UNCHANGED <<url, xml_file_path>>
    /\ UNCHANGED outsideSource

InitSource == PipelineIdle /\ CacheIdle /\ LoaderIdle /\ HttpIdle /\ DiscoveryIdle /\ SourceInit /\ ValidateIdle /\ OnceIdle /\ SchemaIdle /\ ExtractIdle /\ ProgressIdle /\ ContentIdle /\ BackoffIdle /\ OriginIdle

NextSource == classify

SpecSource == InitSource /\ [][NextSource]_vars

\* the directory of a file path: the characters before its last separator
DirectoryOf(path) == SubSeq(path, 1, LastSeparator(path) - 1)

\* C23: a URI that starts with http:// or https:// is Remote with that URL;
\* any other URI is Local, with the URI itself as the path when it starts
\* with "/", and otherwise with the URI after the directory of the XML file
\* and a separator (after nothing when the file path has no directory, after
\* the root when the file lies in it)
C23_OriginClassification ==
    source_type # NoSourceType =>
        LET http == <<"h", "t", "t", "p", ":", "/", "/">>
            https == <<"h", "t", "t", "p", "s", ":", "/", "/">>
            remote == \E rest \in {SubSeq(url, i, Len(url)) : i \in 1..(Len(url) + 1)} :
                          url = http \o rest \/ url = https \o rest
        IN IF remote THEN source_type = [tag |-> "Remote", value |-> url]
           ELSE /\ source_type.tag = "Local"
                /\ IF url # <<>> /\ url[1] = "/" THEN source_type.value = url
                   ELSE IF LastSeparator(xml_file_path) = 0
                        THEN source_type.value = url
                   ELSE IF LastSeparator(xml_file_path) = 1
                        THEN source_type.value = <<"/">> \o url
                   ELSE source_type.value = DirectoryOf(xml_file_path) \o <<"/">> \o url

\* C23 witness: a relative URI was joined to the directory of a file in a
\* nested directory
C23_Witness ==
    /\ source_type.tag = "Local"
    /\ url = <<".", ".", "/", "c">>
    /\ xml_file_path = <<"/", "d", "/", "e", "/", "f">>
    /\ source_type.value = <<"/", "d", "/", "e", "/", ".", ".", "/", "c">>

\* ------------------------------------- validate_file and its match: steps

\* validate_file up to xmlSchemaValidateFile: the path is converted and the
\* validation context is created, or the call returns an error, which the
\* match of validate_single_file_internal turns into an Error outcome
validate_file_starts ==
    /\ validate_pc = "start"
    /\ \E r \in {"ok", "ValidationFailed", "ValidationContextCreationFailed"} :
          IF r = "ok"
          THEN validate_pc' = "validating" /\ UNCHANGED file_result
          ELSE validate_pc' = "done" /\ file_result' = FileResult_error(r)
    /\ UNCHANGED <<errors, result_code>>
    /\ UNCHANGED outsideValidate

\* structured_error_callback(user_data, error), called by the engine while
\* it validates: a message that is null or not UTF-8 ("-") is not kept
structured_error_callback ==
    /\ validate_pc = "validating"
    /\ Len(errors) < MaxErrors
    /\ \E m \in Messages \cup {"-"} :
          errors' = IF m = "-" THEN errors ELSE Append(errors, m)
    /\ UNCHANGED <<validate_pc, result_code, file_result>>
    /\ UNCHANGED outsideValidate

\* xmlSchemaValidateFile returns c; validate_file frees the context and
\* converts the code, and validate_single_file_internal matches the result
validate_file_returns ==
    /\ validate_pc = "validating"
    /\ \E c \in ResultCodes :
          LET r == ValidationResult_from_code(c, errors) IN
          /\ result_code' = Code(c)
          /\ file_result' =
                CASE r.tag = "Valid" -> FileResult_valid(TargetUrl)
                  [] r.tag = "Invalid" ->
                        FileResult_invalid(TargetUrl, r.error_count, r.errors)
                  [] OTHER -> FileResult_error("ValidationFailed")
    /\ validate_pc' = "done"
    /\ UNCHANGED errors
    /\ UNCHANGED outsideValidate

\* the blocking task panics: the JoinError becomes an Error outcome
validate_file_panics ==
    /\ validate_pc = "validating"
    /\ validate_pc' = "done"
    /\ file_result' = FileResult_error("Concurrency")
    /\ UNCHANGED <<errors, result_code>>
    /\ UNCHANGED outsideValidate

InitValidate == PipelineIdle /\ CacheIdle /\ LoaderIdle /\ HttpIdle /\ DiscoveryIdle /\ SourceIdle /\ ValidateInit /\ OnceIdle /\ SchemaIdle /\ ExtractIdle /\ ProgressIdle /\ ContentIdle /\ BackoffIdle /\ OriginIdle

NextValidate ==
    \/ validate_file_starts
    \/ structured_error_callback
    \/ validate_file_returns
    \/ validate_file_panics

SpecValidate == InitValidate /\ [][NextValidate]_vars

\* C24: for every return code c of the engine the file outcome is Valid when
\* c = 0, Invalid with error_count = c (at least 1) and the captured
\* messages when c > 0, and Error when c < 0; Valid and Invalid outcomes
\* carry the schema URI, an Error outcome carries none
C24_EngineResultMapping ==
    /\ result_code.returned =>
          LET c == result_code.code IN
          /\ c = 0 => file_result.status = "Valid"
          /\ c > 0 => /\ file_result.status = "Invalid"
                      /\ file_result.error_count = c
                      /\ file_result.error_count >= 1
                      /\ file_result.error_details = errors
          /\ c < 0 => file_result.status = "Error"
    /\ file_result.status \in {"Valid", "Invalid"} =>
          result_code.returned /\ file_result.schema_url = TargetUrl
    /\ file_result.status = "Error" => file_result.schema_url = "None"

\* C24 witness: the engine returned a positive code after reporting errors
C24_Witness ==
    /\ validate_pc = "done"
    /\ result_code = Code(2)
    /\ file_result.status = "Invalid"
    /\ file_result.error_details = <<"m1", "m2">>

\* C25: the error_count of an Invalid outcome is the number of captured
\* messages in its error_details
C25_ErrorCountMatchesMessages ==
    file_result.status = "Invalid" =>
        file_result.error_count = Len(file_result.error_details)

\* ------------------------------------------ LibXml2Wrapper::new: steps

\* new() returns the wrapper to thread t
NewReturns(t) ==
    /\ wrappers' = [wrappers EXCEPT ![t] = @ + 1]
    /\ new_pc' = [new_pc EXCEPT ![t] = "idle"]

\* mutant of call_once: the state is tested but not claimed, so every thread
\* that finds it INCOMPLETE runs the closure
call_once_unclaimed(t) ==
    /\ new_pc[t] = "idle"
    /\ wrappers[t] < MaxCalls
    /\ CASE LIBXML2_INIT = "COMPLETE" ->
              NewReturns(t) /\ UNCHANGED LIBXML2_INIT
         [] OTHER ->
              /\ new_pc' = [new_pc EXCEPT ![t] = "xmlInitParser"]
              /\ UNCHANGED <<LIBXML2_INIT, wrappers>>
    /\ UNCHANGED init_calls
    /\ UNCHANGED outsideOnce

\* new() up to LIBXML2_INIT.call_once: a completed Once lets the call
\* return, an incomplete one is claimed by the caller, who runs the closure,
\* a running one makes the caller wait
call_once(t) ==
    /\ new_pc[t] = "idle"
    /\ wrappers[t] < MaxCalls
    /\ CASE LIBXML2_INIT = "COMPLETE" ->
              NewReturns(t) /\ UNCHANGED LIBXML2_INIT
         [] LIBXML2_INIT = "INCOMPLETE" ->
              /\ LIBXML2_INIT' = "RUNNING"
              /\ new_pc' = [new_pc EXCEPT ![t] = "xmlInitParser"]
              /\ UNCHANGED wrappers
         [] OTHER ->
              /\ new_pc' = [new_pc EXCEPT ![t] = "waiting"]
              /\ UNCHANGED <<LIBXML2_INIT, wrappers>>
    /\ UNCHANGED init_calls
    /\ UNCHANGED outsideOnce

\* the closure: xmlInitParser()
xmlInitParser(t) ==
    /\ new_pc[t] = "xmlInitParser"
    /\ init_calls' = [init_calls EXCEPT !["xmlInitParser"] = @ + 1]
    /\ new_pc' = [new_pc EXCEPT ![t] = "xmlInitGlobals"]
    /\ UNCHANGED <<LIBXML2_INIT, wrappers>>
    /\ UNCHANGED outsideOnce

\* the closure: xmlInitGlobals(); the closure ends, the Once is completed
\* and new() returns
xmlInitGlobals(t) ==
    /\ new_pc[t] = "xmlInitGlobals"
    /\ init_calls' = [init_calls EXCEPT !["xmlInitGlobals"] = @ + 1]
    /\ LIBXML2_INIT' = "COMPLETE"
    /\ NewReturns(t)
    /\ UNCHANGED outsideOnce

\* a caller that waited for the running closure is woken
call_once_wakes(t) ==
    /\ new_pc[t] = "waiting"
    /\ LIBXML2_INIT = "COMPLETE"
    /\ NewReturns(t)
    /\ UNCHANGED <<LIBXML2_INIT, init_calls>>
    /\ UNCHANGED outsideOnce

InitOnce == PipelineIdle /\ CacheIdle /\ LoaderIdle /\ HttpIdle /\ DiscoveryIdle /\ SourceIdle /\ ValidateIdle /\ OnceInit /\ SchemaIdle /\ ExtractIdle /\ ProgressIdle /\ ContentIdle /\ BackoffIdle /\ OriginIdle

NextOnce ==
    \E t \in Threads :
        \/ call_once(t)
        \/ xmlInitParser(t)
        \/ xmlInitGlobals(t)
        \/ call_once_wakes(t)

SpecOnce == InitOnce /\ [][NextOnce]_vars

\* C26: each of the two init routines runs at most once in the process, and
\* in the order xmlInitParser, xmlInitGlobals; once any new() call has
\* returned, both have run exactly once and the initialization is complete
C26_OneTimeInit ==
    /\ \A r \in InitRoutines : init_calls[r] <= 1
    /\ init_calls["xmlInitGlobals"] <= init_calls["xmlInitParser"]
    /\ (\E t \in Threads : wrappers[t] > 0) =>
          /\ LIBXML2_INIT = "COMPLETE"
          /\ \A r \in InitRoutines : init_calls[r] = 1
    /\ LIBXML2_INIT = "COMPLETE" => \A r \in InitRoutines : init_calls[r] = 1

\* C26 witness: three threads called new() while the Once was not complete,
\* one ran the closure, all of them got their wrapper, one of them twice
C26_Witness ==
    /\ \A t \in Threads : wrappers[t] > 0
    /\ \E t \in Threads : wrappers[t] = MaxCalls
    /\ \A r \in InitRoutines : init_calls[r] = 1

\* --------------------------------------- compiled-schema lifetime: steps

\* Arc::drop: the count goes down, and the holder that brings it to zero
\* drops the XmlSchemaInner, whose Drop calls xmlSchemaFree
Arc_drop ==
    /\ strong_count' = strong_count - 1
    /\ free_calls' = IF strong_count = 1 THEN free_calls + 1 ELSE free_calls

\* mutant of get_or_load: the caller gets the pointer without a count of
\* its own
get_or_load_hit_uncounted(v) ==
    /\ cache_entry
    /\ handle[v] = "none"
    /\ handle' = [handle EXCEPT ![v] = "queued"]
    /\ UNCHANGED <<strong_count, cache_entry, free_calls>>
    /\ UNCHANGED outsideSchema

\* get_or_load returns a clone of the cached Arc to a validator, which
\* moves it into the closure it hands to spawn_blocking
get_or_load_hit(v) ==
    /\ cache_entry
    /\ handle[v] = "none"
    /\ strong_count' = strong_count + 1
    /\ handle' = [handle EXCEPT ![v] = "queued"]
    /\ UNCHANGED <<cache_entry, free_calls>>
    /\ UNCHANGED outsideSchema

\* the blocking pool starts the closure: validate_file(&validate_ptr, ..)
validate_file_runs(v) ==
    /\ handle[v] = "queued"
    /\ handle' = [handle EXCEPT ![v] = "validating"]
    /\ UNCHANGED <<strong_count, cache_entry, free_calls>>
    /\ UNCHANGED outsideSchema

\* validate_file returns and the closure ends (whether or not the task that
\* spawned it still waits for it): its Arc is dropped
validate_file_ends(v) ==
    /\ handle[v] = "validating"
    /\ handle' = [handle EXCEPT ![v] = "none"]
    /\ Arc_drop
    /\ UNCHANGED cache_entry
    /\ UNCHANGED outsideSchema

\* moka evicts the entry (max_capacity): the cache drops its Arc
evict ==
    /\ cache_entry
    /\ cache_entry' = FALSE
    /\ Arc_drop
    /\ UNCHANGED handle
    /\ UNCHANGED outsideSchema

InitSchema == PipelineIdle /\ CacheIdle /\ LoaderIdle /\ HttpIdle /\ DiscoveryIdle /\ SourceIdle /\ ValidateIdle /\ OnceIdle /\ SchemaInit /\ ExtractIdle /\ ProgressIdle /\ ContentIdle /\ BackoffIdle /\ OriginIdle

NextSchema ==
    \/ evict
    \/ \E v \in Validators :
          \/ get_or_load_hit(v)
          \/ validate_file_runs(v)
          \/ validate_file_ends(v)

SpecSchema == InitSchema /\ [][NextSchema]_vars

\* the holders of the schema: the cache entry and the closures with a handle
Holders == (IF cache_entry THEN {0} ELSE {}) \cup {v \in Validators : handle[v] # "none"}

\* C27: xmlSchemaFree runs at most once on the schema; it has run exactly
\* when the cache entry and every validator have dropped their handle; so
\* while a validate_file call on the schema is in progress, evicted or not,
\* the schema is not freed
C27_SchemaLifetime ==
    /\ free_calls <= 1
    /\ free_calls = 1 <=> Holders = {}
    /\ \A v \in Validators : handle[v] = "validating" => free_calls = 0

\* C27 witness: the entry was evicted while two validate_file calls run on
\* the schema, and the schema is not freed
C27_Witness ==
    /\ ~cache_entry
    /\ Cardinality({v \in Validators : handle[v] = "validating"}) = 2
    /\ free_calls = 0

\* C28: storing freshly downloaded bytes never fails the resolution: every
\* step of the store leaves the file without an Error outcome, the bytes are
\* in the memory tier, and the store ends with the bytes handed on
C28_Step ==
    load_pc \in {"store", "storing"} =>
        /\ run_outcome'[run].status # "Error"
        /\ load_pc' \in {"store", "storing", "loaded"}
        /\ load_pc' = "loaded" =>
              /\ memory_cache'[generate_key("u1")].tag = "Some"
              /\ loaded'[run] = memory_cache'[generate_key("u1")].data

C28_DiskWriteFailureTolerated == [][C28_Step]_vars

\* C29: a read of the disk tier never returns an error: DiskCache::get and
\* SchemaCache::get return None for an entry whose metadata file cannot be
\* parsed or whose data record is missing
C29_CorruptEntryIsMiss ==
    cache_ret.op \in {"DiskCache::get", "SchemaCache::get"} =>
        /\ cache_ret.value.tag # "Err"
        /\ cache_ret.value.tag = "Some" =>
              /\ from_str(metadata_file[cache_ret.key].content).ok
              /\ cacache[cache_ret.key] # "EntryNotFound"

\* C30: with fail_fast off the run never returns an error: whatever fails
\* inside the task of a file, a panic of the task included, the run returns
\* Ok with one outcome per file, an Error outcome for the file that failed
C30_PerFileFailuresContained ==
    ~failFast =>
        /\ ret # "err"
        /\ ret = "ok" =>
              /\ Len(file_results) = numFiles
              /\ \A i \in 1..numFiles : file_results[i].status # "None"
        /\ \A f \in Files : pc[f] = "panicked" => outcome[f].status = "Error"

\* ------------------------------------------ extract_schema_urls: steps

\* mutant of the match in validate_single_file_internal: the last reference
\* of the list is used
uses_reference_last(refs) ==
    IF refs = <<>> THEN Skipped ELSE refs[Len(refs)]

\* the end of extract_schema_urls and the match on its result in
\* validate_single_file_internal: SchemaUrlNotFound for an empty list gives
\* Skipped, otherwise refs.into_iter().next() is used
uses_reference(refs) ==
    IF refs = <<>> THEN Skipped ELSE refs[1]

\* the references one line adds: the schemaLocation capture, then the
\* noNamespaceSchemaLocation capture
captures(i) ==
    (IF xml_lines[i].schemaLocation
     THEN <<SchemaReference(i, "schemaLocation")>> ELSE <<>>)
    \o (IF xml_lines[i].noNamespaceSchemaLocation
        THEN <<SchemaReference(i, "noNamespaceSchemaLocation")>> ELSE <<>>)

\* one turn of the loop: next_line yields a line, its captures are pushed,
\* and a line that starts with "</" ends the loop and the call
next_line ==
    /\ scan_pc = "reading"
    /\ lines_read < Len(xml_lines)
    /\ LET i == lines_read + 1
           refs == schema_refs \o captures(i)
       IN
       /\ lines_read' = i
       /\ schema_refs' = refs
       /\ IF xml_lines[i].closing
          THEN scan_pc' = "done" /\ schema_ref' = uses_reference(refs)
          ELSE UNCHANGED <<scan_pc, schema_ref>>
    /\ UNCHANGED xml_lines
    /\ UNCHANGED outsideExtract

\* next_line yields None at the end of the file
end_of_file ==
    /\ scan_pc = "reading"
    /\ lines_read = Len(xml_lines)
    /\ scan_pc' = "done"
    /\ schema_ref' = uses_reference(schema_refs)
    /\ UNCHANGED <<xml_lines, lines_read, schema_refs>>
    /\ UNCHANGED outsideExtract

InitExtract == PipelineIdle /\ CacheIdle /\ LoaderIdle /\ HttpIdle /\ DiscoveryIdle /\ SourceIdle /\ ValidateIdle /\ OnceIdle /\ SchemaIdle /\ ExtractInit /\ ProgressIdle /\ ContentIdle /\ BackoffIdle /\ OriginIdle

NextExtract == next_line \/ end_of_file

SpecExtract == InitExtract /\ [][NextExtract]_vars

\* the lines of the file up to and including its first line that starts
\* with "</" (all lines if there is none)
Scanned ==
    {i \in 1..Len(xml_lines) : \A j \in 1..(i - 1) : ~xml_lines[j].closing}

\* the lines among them with a declaration
Declaring ==
    {i \in Scanned :
        xml_lines[i].schemaLocation \/ xml_lines[i].noNamespaceSchemaLocation}

\* C31: the reference used for a file is the match of the earliest declaring
\* line in line order, the schemaLocation match before the
\* noNamespaceSchemaLocation match of the same line; no line after the first
\* line that starts with "</" is looked at, and a file that declares a schema
\* only on such lines is Skipped
C31_ExtractorScan ==
    scan_pc = "done" =>
        /\ lines_read \in Scanned \cup {0}
        /\ lines_read < Len(xml_lines) => xml_lines[lines_read].closing
        /\ Declaring = {} <=> schema_ref = Skipped
        /\ Declaring # {} =>
              /\ schema_ref.tag = "Some"
              /\ schema_ref.line \in Declaring
              /\ \A j \in Declaring : schema_ref.line <= j
              /\ schema_ref.attribute = "noNamespaceSchemaLocation" =>
                    ~xml_lines[schema_ref.line].schemaLocation

\* C31 witness: the reference comes from the second line although the third
\* declares one as well; and a file Skipped although its last line, after a
\* closing line, declares a schema
C31_Witness ==
    /\ scan_pc = "done"
    /\ Len(xml_lines) = 3
    /\ xml_lines[3].schemaLocation
    /\ \/ /\ schema_ref = SchemaReference(2, "schemaLocation")
          /\ xml_lines[2].noNamespaceSchemaLocation
          /\ lines_read = 3
       \/ /\ schema_ref = Skipped
          /\ xml_lines[2].closing
          /\ lines_read = 2

\* -------------------------------------------- the walk with I/O errors

\* fs::metadata(path) or fs::read_dir(path) of discover_files_recursive
\* fails: the call returns Err to the loop that made it, which logs the
\* error and goes on with its next entry
entry_io_error ==
    /\ walk_pc = "walking"
    /\ frames # <<>>
    /\ LET top == frames[Len(frames)] IN
       \E n \in top.todo :
          /\ ~(is_symlink(Append(top.dir, n)) /\ ~follow_symlinks)
          /\ frames' = [frames EXCEPT ![Len(frames)].todo = top.todo \ {n}]
    /\ UNCHANGED <<extensions, include_patterns, exclude_patterns, max_depth,
                   follow_symlinks, files, descended, walk_pc, root_kind>>
    /\ UNCHANGED outsideDiscovery

\* next_entry of a read_dir stream fails: `?` returns the error from the
\* function that owns the loop. Below the root that is
\* discover_files_recursive, whose caller logs it; at the root it is
\* discover_files itself, which returns Err and drops files
next_entry_fails ==
    /\ walk_pc = "walking"
    /\ frames # <<>>
    /\ frames' = SubSeq(frames, 1, Len(frames) - 1)
    /\ walk_pc' = IF Len(frames) = 1 THEN "failed" ELSE "walking"
    /\ UNCHANGED <<extensions, include_patterns, exclude_patterns, max_depth,
                   follow_symlinks, files, descended, root_kind>>
    /\ UNCHANGED outsideDiscovery

NextDiscoveryIo == NextDiscovery \/ entry_io_error \/ next_entry_fails

SpecDiscoveryIo == InitDiscovery /\ [][NextDiscoveryIo]_vars

\* C32: an I/O error on an entry during the walk, at any level and also on
\* the entry stream of the root, does not make discover_files fail: the call
\* fails only if the root cannot be opened
C32_EntryErrorsTolerated ==
    walk_pc = "failed" => root_kind = "file"

\* --------------------------------------------------- progress count: steps

\* mutant of fetch_add: the counter is read and written back in two atomic
\* operations, so the write of one task can overwrite that of another
fetch_add_load_store(t) ==
    /\ \E seen \in 0..completed_count :
          /\ done' = [done EXCEPT ![t] = seen + 1]
          /\ completed_count' = seen + 1

\* completed.fetch_add(1, Ordering::SeqCst) + 1: one atomic read-modify-write
fetch_add(t) ==
    /\ done' = [done EXCEPT ![t] = completed_count + 1]
    /\ completed_count' = completed_count + 1

\* the timeout future of a task resolves, with the result of the file or
\* with the elapsed timeout, and the task bumps the counter
update_progress(t) ==
    /\ run_pc = "joining"
    /\ progress_pc[t] = "validating"
    /\ fetch_add(t)
    /\ progress_pc' = [progress_pc EXCEPT ![t] = "counted"]
    /\ UNCHANGED <<total_files, progress_callback, callbacks, run_pc>>
    /\ UNCHANGED outsideProgress

\* the task calls the callback, if there is one, with its own `done`, and
\* returns
callback(t) ==
    /\ run_pc = "joining"
    /\ progress_pc[t] = "counted"
    /\ callbacks' =
          IF progress_callback = "Some"
          THEN Append(callbacks, [current_file |-> t, completed |-> done[t],
                                  total |-> total_files])
          ELSE callbacks
    /\ progress_pc' = [progress_pc EXCEPT ![t] = "returned"]
    /\ UNCHANGED <<total_files, progress_callback, completed_count, done, run_pc>>
    /\ UNCHANGED outsideProgress

\* try_join_all resolves when every task has returned (an empty file list
\* returns before anything is spawned)
progress_run_returns ==
    /\ run_pc = "joining"
    /\ \A t \in ProgressTasks : progress_pc[t] = "returned"
    /\ run_pc' = "returned"
    /\ UNCHANGED <<total_files, progress_callback, completed_count,
                   progress_pc, done, callbacks>>
    /\ UNCHANGED outsideProgress

InitProgress == PipelineIdle /\ CacheIdle /\ LoaderIdle /\ HttpIdle /\ DiscoveryIdle /\ SourceIdle /\ ValidateIdle /\ OnceIdle /\ SchemaIdle /\ ExtractIdle /\ ProgressInit /\ ContentIdle /\ BackoffIdle /\ OriginIdle

NextProgress ==
    \/ \E t \in ProgressTasks : update_progress(t) \/ callback(t)
    \/ progress_run_returns

SpecProgress == InitProgress /\ [][NextProgress]_vars

\* C33: with a callback, no two invocations ever carry the same completed
\* value or the same file, each carries total = N, and when the run returns
\* the callback has been invoked N times with the completed values 1..N
C33_ProgressCounting ==
    progress_callback = "Some" =>
        /\ \A i, j \in 1..Len(callbacks) :
              i # j => /\ callbacks[i].completed # callbacks[j].completed
                       /\ callbacks[i].current_file # callbacks[j].current_file
        /\ \A i \in 1..Len(callbacks) :
              /\ callbacks[i].total = total_files
              /\ callbacks[i].completed \in 1..total_files
        /\ run_pc = "returned" =>
              /\ Len(callbacks) = total_files
              /\ {callbacks[i].completed : i \in 1..Len(callbacks)} = 1..total_files

\* C33 witness: a run over three files has returned, and the callback
\* received completed = 2 before completed = 1
C33_Witness ==
    /\ run_pc = "returned"
    /\ progress_callback = "Some"
    /\ total_files = 3
    /\ Len(callbacks) = 3
    /\ callbacks[1].completed = 2
    /\ callbacks[2].completed = 1

\* ---------------------------------------------------- content check: steps

\* std::str::from_utf8(data)
from_utf8_ok(data) == \A i \in 1..Len(data) : data[i] # "0xFF"

\* content.trim_start()
RECURSIVE trim_start(_)
trim_start(content) ==
    IF content # <<>> /\ content[1] = "ws"
    THEN trim_start(SubSeq(content, 2, Len(content)))
    ELSE content

\* content.contains(token)
contains(content, token) == \E i \in 1..Len(content) : content[i] = token

\* trimmed.starts_with("<?xml") || trimmed.starts_with("<")
starts_like_xml(content) ==
    LET t == trim_start(content) IN
    t # <<>> /\ t[1] \in {"<?xml", "<xs:schema", "<xsd:schema", "<schema", "<html"}

\* mutant of validate_schema_content: the check for a schema element is
\* left out
validate_schema_content_xml_only(data) ==
    from_utf8_ok(data) /\ starts_like_xml(data)

\* validate_schema_content(data, source) returns Ok
validate_schema_content(data) ==
    /\ from_utf8_ok(data)
    /\ starts_like_xml(data)
    /\ \/ contains(data, "<xs:schema")
       \/ contains(data, "<xsd:schema")
       \/ contains(data, "<schema")

\* the cache had no entry; download_schema(url) or tokio::fs::read(path)
\* returns the bytes, or fails
content_fetched ==
    /\ content_pc = "fetch"
    /\ \E ok \in BOOLEAN :
          IF ok THEN content_pc' = "check" /\ UNCHANGED load_error
          ELSE /\ content_pc' = "failed"
               /\ load_error' = [kind |-> "SchemaNotFound", url |-> schema_source.value]
    /\ UNCHANGED <<schema_source, schema_data, parse_calls>>
    /\ UNCHANGED outsideContent

\* self.validate_schema_content(&schema_data, source)?
content_checked ==
    /\ content_pc = "check"
    /\ IF validate_schema_content(schema_data)
       THEN content_pc' = "store" /\ UNCHANGED load_error
       ELSE /\ content_pc' = "failed"
            /\ load_error' = [kind |-> "SchemaParsing", url |-> schema_source.value]
    /\ UNCHANGED <<schema_source, schema_data, parse_calls>>
    /\ UNCHANGED outsideContent

\* self.cache.set(..)? and self.cache.get(..)?: the entry is returned to
\* the caller, or the cache fails
content_stored ==
    /\ content_pc = "store"
    /\ \E ok \in BOOLEAN :
          IF ok THEN content_pc' = "parse" /\ UNCHANGED load_error
          ELSE /\ content_pc' = "failed"
               /\ load_error' = [kind |-> "Cache", url |-> "-"]
    /\ UNCHANGED <<schema_source, schema_data, parse_calls>>
    /\ UNCHANGED outsideContent

\* the caller hands the returned bytes to parse_schema_from_memory
parse_schema_from_memory ==
    /\ content_pc = "parse"
    /\ parse_calls' = parse_calls \cup {schema_data}
    /\ content_pc' = "parsed"
    /\ UNCHANGED <<schema_source, schema_data, load_error>>
    /\ UNCHANGED outsideContent

InitContent == PipelineIdle /\ CacheIdle /\ LoaderIdle /\ HttpIdle /\ DiscoveryIdle /\ SourceIdle /\ ValidateIdle /\ OnceIdle /\ SchemaIdle /\ ExtractIdle /\ ProgressIdle /\ ContentInit /\ BackoffIdle /\ OriginIdle

NextContent ==
    content_fetched \/ content_checked \/ content_stored \/ parse_schema_from_memory

SpecContent == InitContent /\ [][NextContent]_vars

\* bytes that are not UTF-8 or hold none of the schema element tokens
NotASchema(data) ==
    \/ \E i \in 1..Len(data) : data[i] = "0xFF"
    \/ \A i \in 1..Len(data) : data[i] \notin {"<xs:schema", "<xsd:schema", "<schema"}

\* C34: parse_schema_from_memory is never called on freshly loaded bytes
\* that are not UTF-8 or hold no schema element token; once such bytes have
\* been checked the resolution has failed with SchemaParsing naming the
\* source, and the engine has not been called
C34_PreParseCheck ==
    /\ \A data \in parse_calls : ~NotASchema(data)
    /\ (NotASchema(schema_data) /\ content_pc \notin {"fetch", "check"}) =>
          /\ content_pc = "failed"
          /\ load_error.kind \in {"SchemaParsing", "SchemaNotFound"}
          /\ load_error.kind = "SchemaParsing" => load_error.url = schema_source.value
          /\ parse_calls = {}

\* C34 witness: markup that starts like XML, is UTF-8 and holds no schema
\* element was fetched and refused
C34_Witness ==
    /\ content_pc = "failed"
    /\ load_error = [kind |-> "SchemaParsing", url |-> "http://h/s.xsd"]
    /\ schema_data = <<"<?xml", "<html", "text">>

\* ------------------------------------------------------- backoff: steps

Min(a, b) == IF a <= b THEN a ELSE b

\* a * b on unsigned words: the outcomes the builds produce. An overflow
\* panics where overflow checks are on and wraps where they are off
mul(a, b) ==
    IF a * b < Word
    THEN {[tag |-> "value", value |-> a * b]}
    ELSE {[tag |-> "panic", value |-> 0],
          [tag |-> "value", value |-> (a * b) % Word]}

\* wait_before_retry(attempt): delay_ms = retry_delay_ms * 2_u64.pow(attempt),
\* capped_delay = delay_ms.min(max_retry_delay_ms), then the sleep
wait_before_retry ==
    /\ backoff_pc = "retrying"
    /\ attempt < retries
    /\ \E delay_ms \in mul(retry_delay_ms, 2 ^ attempt) :
          IF delay_ms.tag = "panic"
          THEN backoff_pc' = "panicked" /\ UNCHANGED <<attempt, delays>>
          ELSE /\ delays' = Append(delays, Min(delay_ms.value, max_retry_delay_ms))
               /\ attempt' = attempt + 1
               /\ UNCHANGED backoff_pc
    /\ UNCHANGED <<retry_delay_ms, max_retry_delay_ms, retries>>
    /\ UNCHANGED outsideBackoff

\* a request succeeds, fails for good, or the attempts are used up
backoff_returns ==
    /\ backoff_pc = "retrying"
    /\ backoff_pc' = "returned"
    /\ UNCHANGED <<retry_delay_ms, max_retry_delay_ms, retries, attempt, delays>>
    /\ UNCHANGED outsideBackoff

InitBackoff == PipelineIdle /\ CacheIdle /\ LoaderIdle /\ HttpIdle /\ DiscoveryIdle /\ SourceIdle /\ ValidateIdle /\ OnceIdle /\ SchemaIdle /\ ExtractIdle /\ ProgressIdle /\ ContentIdle /\ BackoffInit /\ OriginIdle

NextBackoff == wait_before_retry \/ backoff_returns

SpecBackoff == InitBackoff /\ [][NextBackoff]_vars

\* C35: the computation of a delay does not overflow; the delay before
\* retry a is min(retry_delay_ms * 2^a, max_retry_delay_ms), it is at most
\* max_retry_delay_ms and the delays do not decrease with a
C35_BackoffDelay ==
    /\ backoff_pc # "panicked"
    /\ \A i \in 1..Len(delays) :
          /\ delays[i] = Min(retry_delay_ms * 2 ^ (i - 1), max_retry_delay_ms)
          /\ delays[i] <= max_retry_delay_ms
          /\ i > 1 => delays[i - 1] <= delays[i]

\* the part of C35 that holds whatever the product does: no delay exceeds
\* max_retry_delay_ms
C35_Capped ==
    \A i \in 1..Len(delays) : delays[i] <= max_retry_delay_ms

\* ----------------------------------------- schema of a file's origin: steps

\* the key of the ParsedSchemaCache entry of a reference:
\* target_url = schema_ref.url.clone(), the text of the declaration
target_url(schema_url, source) == schema_url

\* validate_single_file_internal(file_path) up to schema_ptr: the reference
\* is extracted and classified against the file's own path, and
\* get_or_load(target_url, loader) returns the entry of that key, running
\* the loader (load_schema of the resolved source, then the parse) only if
\* the key has no entry
get_schema_ptr(file_path) ==
    /\ schema_ptr[file_path] = NoSchemaPtr
    /\ LET schema_url == declared[file_path]
           source == determine_source_type(schema_url, file_path)
           key == target_url(schema_url, source)
           ptr == IF parsed_cache[key] # NoSchemaPtr THEN parsed_cache[key]
                  ELSE source
       IN
       /\ parsed_cache' = [parsed_cache EXCEPT ![key] = ptr]
       /\ schema_ptr' = [schema_ptr EXCEPT ![file_path] = ptr]
    /\ UNCHANGED declared
    /\ UNCHANGED outsideOrigin

InitOrigin == PipelineIdle /\ CacheIdle /\ LoaderIdle /\ HttpIdle /\ DiscoveryIdle /\ SourceIdle /\ ValidateIdle /\ OnceIdle /\ SchemaIdle /\ ExtractIdle /\ ProgressIdle /\ ContentIdle /\ BackoffIdle /\ OriginInit

NextOrigin == \E file_path \in OriginFiles : get_schema_ptr(file_path)

SpecOrigin == InitOrigin /\ [][NextOrigin]_vars

\* C36: the compiled schema a file is validated against was parsed from the
\* bytes of the file's own resolved source, also when a file of another
\* directory declares the same relative text
C36_OwnOrigin ==
    \A file_path \in OriginFiles :
        schema_ptr[file_path] # NoSchemaPtr =>
            schema_ptr[file_path] =
                determine_source_type(declared[file_path], file_path)

\* ------------------------------------------------ the run under fairness

\* every step of a task that can be taken is eventually taken: a permit that
\* stays free is handed out, and every extraction, cache call, fetch, parse
\* and validation eventually returns. No fairness on Timeout: the deadline
\* may or may not fire
Fairness ==
    /\ \A f \in Files :
          /\ WF_vars(AcquirePermit(f))
          /\ WF_vars(extract_schema_urls(f))
          /\ WF_vars(get_or_load(f))
          /\ WF_vars(WaiterReads(f))
          /\ WF_vars(load_schema(f))
          /\ WF_vars(fetch_returns(f))
          /\ WF_vars(cache_set(f))
          /\ WF_vars(ParseStarts(f))
          /\ WF_vars(ParseReturns(f))
          /\ WF_vars(ValidateStarts(f))
          /\ WF_vars(ValidateReturns(f))
    /\ WF_vars(try_join_all)

SpecLive == Init /\ [][Next]_vars /\ Fairness

\* a task that holds a permit waits on the waiter of a leader that has no
\* permit yet
PermitCycle ==
    \E f, l \in Files :
        /\ pc[f] = "waiting"
        /\ waitingOn[f] = l
        /\ pc[l] = "spawned"

\* a caller waits on a waiter that nobody will ever complete
StuckWaiter ==
    \E f \in Files :
        /\ pc[f] = "waiting"
        /\ result[waitingOn[f]] = "computing"
        /\ pc[waitingOn[f]] \notin Cancellable

\* C37: no task with a permit ever waits on a build whose leader waits for a
\* permit or has gone; every task eventually has a permit behind it and an
\* outcome, and the run returns with one result per file
C37_RunTerminates ==
    /\ [](~PermitCycle /\ ~StuckWaiter)
    /\ <>(/\ ret = "ok"
          /\ Len(file_results) = numFiles
          /\ \A f \in Tasks : pc[f] = "done" /\ outcome[f] # NoOutcome)

\* C37 witness: with one permit and two files that declare the same schema,
\* the run has returned and the second file was served by the first one's
\* build
C37_Witness ==
    /\ maxConcurrent = 1 /\ numFiles = 2
    /\ decl[1] = decl[2] /\ decl[1] \in Urls
    /\ ret = "ok"
    /\ got[2] = 1
    /\ outcome[1].status = "Valid" /\ outcome[2].status = "Valid"

\* C38: SchemaCache::get returns no entry whose metadata expires_at is
\* earlier than the current time, from the memory tier or from the disk tier
C38_GetNeverExpired ==
    (cache_ret.op = "SchemaCache::get" /\ cache_ret.value.tag = "Some")
        => ~(cache_ret.value.expires_at < now)

\* the disk tier's part of C38, which holds
C38_DiskTier ==
    (cache_ret.op = "SchemaCache::get" /\ cache_ret.value.tag = "Some"
       /\ cache_ret.tier = "disk")
        => ~(cache_ret.value.expires_at < now)

\* --------------------------------------- SchemaCache: contains, remove, clear

\* the value SchemaCache::get(url) returns at the present instant
SchemaCache_get_value(k) ==
    IF memory_cache[k].tag = "Some" THEN memory_cache[k] ELSE DiskCache_get_value(k)

\* the value SchemaCache::contains(url) returns at the present instant: true
\* from the memory tier, else DiskCache::contains, which reads the metadata
\* file alone
SchemaCache_contains_value(k) ==
    IF memory_cache[k].tag = "Some" THEN ReturnsBool(TRUE)
    ELSE LET m == get_metadata(k) IN
         IF m.tag = "Err" THEN ReturnsErr
         ELSE IF m.tag = "None" THEN ReturnsBool(FALSE)
         ELSE ReturnsBool(~is_expired(m, now))

\* SchemaCache::contains(url)
SchemaCache_contains(u) ==
    /\ set_pending = NoSet
    /\ CacheCall("SchemaCache::contains", generate_key(u),
                 SchemaCache_contains_value(generate_key(u)))
    /\ UNCHANGED <<now, cacache, metadata_file, memory_cache, set_pending, ttl, history,
                   outsideCache>>

\* SchemaCache::remove(url): the memory entry is removed, then
\* DiskCache::remove deletes the data record and the metadata file, ignoring
\* the error of either deletion (`let _ = ...`), and returns Ok
SchemaCache_remove(u) ==
    /\ set_pending = NoSet
    /\ LET k == generate_key(u) IN
       /\ memory_cache' = [memory_cache EXCEPT ![k] = ReturnsNone]
       /\ \E data_removed, metadata_removed \in BOOLEAN :
            /\ cacache' = IF data_removed
                          THEN [cacache EXCEPT ![k] = "EntryNotFound"] ELSE cacache
            /\ metadata_file' = IF metadata_removed
                                THEN [metadata_file EXCEPT ![k] = NotFound]
                                ELSE metadata_file
            /\ history' = [history EXCEPT ![k] =
                  IF data_removed /\ metadata_removed
                  THEN [tag |-> "removed", entry |-> ReturnsNone, old |-> ReturnsNone]
                  ELSE Unknown]
       /\ CacheCall("SchemaCache::remove", k, ReturnsOk)
    /\ UNCHANGED <<now, set_pending, ttl, outsideCache>>

\* SchemaCache::clear(): invalidate_all on the memory tier, then
\* cacache::clear on the cache directory, which empties the directory (the
\* metadata files are in it), or fails and leaves it as it is
SchemaCache_clear ==
    /\ set_pending = NoSet
    /\ memory_cache' = [k \in Keys |-> ReturnsNone]
    /\ \E cleared \in BOOLEAN :
         IF cleared THEN
            /\ cacache' = [k \in Keys |-> "EntryNotFound"]
            /\ metadata_file' = [k \in Keys |-> NotFound]
            /\ history' = [k \in Keys |->
                  [tag |-> "removed", entry |-> ReturnsNone, old |-> ReturnsNone]]
            /\ CacheCall("SchemaCache::clear", "-", ReturnsOk)
         ELSE
            /\ CacheCall("SchemaCache::clear", "-", ReturnsErr)
            /\ UNCHANGED <<cacache, metadata_file, history>>
    /\ UNCHANGED <<now, set_pending, ttl, outsideCache>>

NextCacheAdmin ==
    \/ NextCache
    \/ \E u \in CacheUrls : SchemaCache_contains(u)
    \/ \E u \in CacheUrls : SchemaCache_remove(u)
    \/ SchemaCache_clear

SpecCacheAdmin == InitCache /\ [][NextCacheAdmin]_vars

\* C39: when clear has just returned Ok (no call made since), get returns None and contains
\* returns false for every url; and in every state in which contains(url)
\* returns true, a get(url) made at once returns Some
C39_ClearAndContains ==
    /\ (/\ cache_ret = [op |-> "SchemaCache::clear", key |-> "-", value |-> ReturnsOk, tier |-> "-"]
        /\ set_pending = NoSet) =>
          \A k \in Keys :
             /\ SchemaCache_get_value(k) = ReturnsNone
             /\ SchemaCache_contains_value(k) = ReturnsBool(FALSE)
    /\ set_pending = NoSet =>
          \A k \in Keys :
             SchemaCache_contains_value(k) = ReturnsBool(TRUE) =>
                SchemaCache_get_value(k).tag = "Some"

\* the first half of C39, which holds: what follows a clear that returned Ok
C39_AfterClear ==
    (/\ cache_ret = [op |-> "SchemaCache::clear", key |-> "-", value |-> ReturnsOk, tier |-> "-"]
     /\ set_pending = NoSet) =>
        \A k \in Keys :
           /\ SchemaCache_get_value(k) = ReturnsNone
           /\ SchemaCache_contains_value(k) = ReturnsBool(FALSE)

\* the engine calls (parse_schema_from_memory, validate_file) executing on
\* blocking workers
EngineCalls == {f \in Files : job[f] \in {"parse", "validate"}}

\* C40: at most max_concurrent_validations engine calls execute on blocking
\* workers at any time, also after the timeout of a task whose call is
\* still running has released the task's permit
C40_EngineCallsBounded ==
    Cardinality(EngineCalls) <= maxConcurrent

\* the part of C40 that holds: the engine calls of tasks that hold a permit
C40_AwaitedCallsBounded ==
    Cardinality({f \in EngineCalls : pc[f] \in Cancellable}) <= maxConcurrent

====
